---- MODULE Spec2Model ----
\* Model of the socgo job scheduler (internal/scheduler), the tenant store
\* cache it polls (internal/database), the provider service it dispatches
\* through (internal/providers) and the posting endpoint that creates its
\* jobs (internal/handlers).  Time is counted in minutes.
EXTENDS Integers, Sequences, FiniteSets, TLC

\* ---------------------------------------------------------------- bounds
MaxJobs == 2        \* job rows ever inserted, all tenant stores together
MaxTime == 2        \* last minute of the clock
MaxFaults == 1      \* store operations (query, save, create) that fail
MaxRestarts == 1    \* process restarts after a crash or an exit
SubSecond == 2      \* instants of a time.Time within one second
MaxRequests == 2    \* requests to an endpoint of the API
MaxRegisters == 3   \* Register calls on one provider registry
MaxCloses == 1      \* CloseDB calls that close a handle, per tenant
MaxCloseCalls == 2  \* CloseDB and CloseAll calls on one Manager
MaxStops == 2       \* Stop calls on one scheduler

\* ------------------------------------------------------------- constants
Tenants == {"u1", "u2"}
Runners == {"main", "loop"}   \* the goroutines that can run processJobs

JobStatusPending == "pending"
JobStatusExecuting == "executing"
JobStatusCompleted == "completed"
JobStatusFailed == "failed"

TickInterval == 1   \* time.NewTicker(1 * time.Minute)

ProviderTypeTikTok == "tiktok"
ProviderTypeInstagram == "instagram"
ProviderTypeFacebook == "facebook"

\* oauth.ProviderConfig, the JSON document of a provider row's config
\* column.  expires_at is a time.Time, counted in instants (SubSecond of
\* them to the second).
StoredConfig(access, refresh, expires) ==
  [access_token |-> access, refresh_token |-> refresh,
   token_type |-> "bearer", expires_at |-> expires]

\* database.Provider
ProviderRow(name, type, active, config) ==
  [name |-> name, type |-> type, is_active |-> active, config |-> config]

\* Provider rows of the tenant stores (the credentials created before the
\* scheduler runs, as the tests create them with db.Create); id 2 has no
\* row in the store of u2.
ProviderIds == {1, 2}
ProviderRows ==
  [u \in Tenants |->
     IF u = "u1"
     THEN (1 :> ProviderRow("facebook", ProviderTypeFacebook, TRUE,
                            StoredConfig("a0", "r0", 3)) @@
           2 :> ProviderRow("instagram", ProviderTypeInstagram, FALSE,
                            StoredConfig("a0", "", 2)))
     ELSE (1 :> ProviderRow("my_page", ProviderTypeFacebook, TRUE,
                            StoredConfig("a0", "r0", 3)))]

\* What a test or the posting API puts into a new job row.
JobInputs ==
  [job_type : {"publish_post"}, provider_id : ProviderIds]
    \cup [job_type : {"send_email"}, provider_id : {1}]

VARIABLES
  now,          \* wall clock, minutes
  jobs,         \* scheduled_jobs rows of all tenant stores, by insertion
  posts,        \* posts rows of all tenant stores
  dispatched,   \* per job: calls of ProviderService.PublishContent
  platformCalls,\* per job: calls of Provider.Publish (platform requests)
  dbs,          \* Manager.dbs: tenants with an open handle
  proc,         \* "up" | "down"
  restarts,     \* process restarts so far
  faults,       \* store failures so far
  mainPc,       \* main goroutine: "new" | "start" | "started" | "stopped"
  loopPc,       \* Start's goroutine: "none" | "select" | "tick" | "exited"
  tickerOn,     \* s.ticker created and not stopped
  tickerC,      \* ticks buffered in s.ticker.C (capacity 1)
  stopClosed,   \* s.stopChan closed
  tick,         \* per runner: position inside processJobs
  creds,        \* providers rows of the tenant stores
  storeDown,    \* tenants whose store file cannot be opened
  svc,          \* the last call of the provider service and its result
  mu,           \* Manager.mutex: its write holder and its read holders
  cache,        \* Manager.dbs as a map: tenant -> handle
  opened,       \* per tenant: times gorm.Open has opened its store
  call,         \* per goroutine: its GetDB call
  api,          \* the last request of the posting endpoint and its answer
  registry,     \* ProviderRegistry.providers: type tag -> implementation
  regLog,       \* the Register calls made on the registry, in order
  regOut,       \* the last Get or GetSupportedProviders and its result
  tokens,       \* api_tokens rows of the store of "default_user"
  auth,         \* the last request to the auth middleware and its answer
  closes,       \* per tenant: times CloseDB has closed a handle of its store
  closeRes,     \* the last CloseDB or CloseAll call and its result
  stops         \* the Stop calls on the scheduler and how the last one ended

\* what the scheduler's own steps leave alone
regVars == <<registry, regLog, regOut>>
authVars == <<tokens, auth>>
moreVars == <<regVars, authVars, closes, closeRes, stops>>
extVars == <<creds, storeDown, svc, mu, cache, opened, call, api, moreVars>>

vars == <<now, jobs, posts, dispatched, platformCalls, dbs, proc, restarts,
          faults, mainPc, loopPc, tickerOn, tickerC, stopClosed, tick,
          creds, storeDown, svc, mu, cache, opened, call, api, moreVars>>

JobIds == 1..Len(jobs)

\* ------------------------------------------------------- error messages
\* An error text is the sequence of its parts; fmt.Errorf("...: %w", err)
\* and "prefix: " + err.Error() put a part in front.
NoError == <<>>
Wrap(prefix, err) == <<prefix>> \o err
Contains(err, part) == \E i \in 1..Len(err) : err[i] = part

\* ------------------------------------------------------ provider service
PreloadedNameSharedStore(u, pid) ==
  IF pid \in DOMAIN creds["u1"] THEN creds["u1"][pid].name ELSE ""

\* Preload("Provider"): the row the job's provider_id refers to, or the
\* zero value (Name == "") when there is none.
PreloadedName(u, pid) ==
  IF pid \in DOMAIN creds[u] THEN creds[u][pid].name ELSE ""

\* Manager.GetDB as its callers see it: the cached handle, or a handle
\* that createOrOpenDB opens now
CanOpen(u) == u \in dbs \/ u \notin storeDown
GetDBError(u) ==
  IF CanOpen(u) THEN NoError ELSE <<"failed to open database for user", u>>

\* Manager.GetDB inside a service operation caches the handle it opens
ServiceGetDB(u) == IF CanOpen(u) THEN dbs \cup {u} ELSE dbs

\* Where("user_id = ? AND name = ? AND is_active = ?", u, name, true)
ActiveIds(u, name) ==
  {p \in DOMAIN creds[u] : creds[u][p].name = name /\ creds[u][p].is_active}

GetProviderConfigNoActive(u, name) ==
  IF ~CanOpen(u) THEN Wrap("failed to get database", GetDBError(u))
  ELSE IF \E p \in DOMAIN creds[u] : creds[u][p].name = name
  THEN NoError
  ELSE <<"provider not found", "record not found">>

\* getProviderConfig: the error it returns
GetProviderConfig(u, name) ==
  IF ~CanOpen(u) THEN Wrap("failed to get database", GetDBError(u))
  ELSE IF ActiveIds(u, name) # {} THEN NoError
  ELSE <<"provider not found", "record not found">>

CreateProviderNoFacebook(providerType) ==
  IF providerType \in {ProviderTypeTikTok, ProviderTypeInstagram}
  THEN NoError
  ELSE <<"unsupported provider type", providerType>>

\* ProviderFactory.CreateProvider: the error it returns
CreateProvider(providerType) ==
  IF providerType \in {ProviderTypeTikTok, ProviderTypeInstagram,
                       ProviderTypeFacebook}
  THEN NoError
  ELSE <<"unsupported provider type", providerType>>

\* NewTikTokProvider, NewInstagramProvider, NewFacebookProvider: the
\* instance holds the config and the HTTP client, nothing is sent
NewProvider(providerType) == [variant |-> providerType, requests |-> 0]

PublishContentUnchecked(u, name, platformOk) ==
  IF CreateProvider(name) # NoError
  THEN [err |-> Wrap("failed to create provider", CreateProvider(name)),
        called |-> FALSE]
  ELSE IF ~platformOk
  THEN [err |-> Wrap("failed to publish content",
                     <<"failed to make request">>),
        called |-> TRUE]
  ELSE [err |-> NoError, called |-> TRUE]

\* ProviderService.PublishContent; platformOk is the platform's answer.
\* err is the returned error, called tells whether Provider.Publish ran.
\* ProviderType(providerName): the name itself is taken as the type tag.
PublishContent(u, name, platformOk) ==
  LET cfg == GetProviderConfig(u, name)
      mk == CreateProvider(name)
  IN IF cfg # NoError
     THEN [err |-> Wrap("failed to get provider config", cfg),
           called |-> FALSE]
     ELSE IF mk # NoError
     THEN [err |-> Wrap("failed to create provider", mk), called |-> FALSE]
     ELSE IF ~platformOk
     THEN [err |-> Wrap("failed to publish content",
                        <<"failed to make request">>),
           called |-> TRUE]
     ELSE [err |-> NoError, called |-> TRUE]

IsProviderConfiguredAnyRow(u, name, queryOk) ==
  IF ~CanOpen(u)
  THEN [ok |-> FALSE, err |-> Wrap("failed to get database", GetDBError(u))]
  ELSE IF ~queryOk \/ ~\E p \in DOMAIN creds[u] : creds[u][p].name = name
  THEN [ok |-> FALSE, err |-> NoError]
  ELSE [ok |-> TRUE, err |-> NoError]

\* ProviderService.IsProviderConfigured; queryOk tells whether the store
\* answers the query.  Every error of the query means "not configured".
IsProviderConfigured(u, name, queryOk) ==
  IF ~CanOpen(u)
  THEN [ok |-> FALSE, err |-> Wrap("failed to get database", GetDBError(u))]
  ELSE IF ~queryOk \/ ActiveIds(u, name) = {}
  THEN [ok |-> FALSE, err |-> NoError]
  ELSE [ok |-> TRUE, err |-> NoError]

\* time.Time.Unix() and time.Unix(sec, 0)
Unix(t) == t \div SubSecond
TimeUnix(sec) == sec * SubSecond

\* getProviderConfig, lines 165-172: the providers.ProviderConfig made of
\* the row's JSON document
LoadConfig(row) ==
  [AccessToken |-> row.config.access_token,
   RefreshToken |-> row.config.refresh_token,
   TokenType |-> row.config.token_type,
   ExpiresAt |-> Unix(row.config.expires_at)]

\* updateProviderConfig, lines 201-219: the row with the tokens of the
\* in-memory config written into its JSON document
StoreConfig(row, config) ==
  [row EXCEPT !.config =
     [access_token |-> config.AccessToken,
      refresh_token |-> config.RefreshToken,
      token_type |-> config.TokenType,
      expires_at |-> TimeUnix(config.ExpiresAt)]]

\* ------------------------------------------------- providers, RefreshToken
\* The platform's answer to a refresh request: no answer at all, a status
\* other than 200, a body that is no JSON, an error document, or a token
\* document (TikTok's carries a refresh token, the others a token type).
Responses ==
  [kind : {"unreachable", "status", "garbage", "error"},
   access_token : {""}, refresh_token : {""}, token_type : {""},
   expires_in : {0}]
    \cup [kind : {"token"}, access_token : {"", "a1"},
          refresh_token : {"", "r1"}, token_type : {"Bearer"},
          expires_in : {1}]

RefreshFailure(resp) ==
  IF resp.kind = "unreachable" THEN <<"failed to make request">>
  ELSE IF resp.kind = "status"
  THEN <<"token refresh failed with status">>
  ELSE IF resp.kind = "garbage" THEN <<"failed to decode response">>
  ELSE IF resp.kind = "error" THEN <<"API error">>
  ELSE NoError

\* the assignments of TikTokProvider.RefreshToken, lines 215-219
TikTokTokens(config, resp, t) ==
  [config EXCEPT !.AccessToken = resp.access_token,
                 !.RefreshToken = resp.refresh_token,
                 !.ExpiresAt = t + resp.expires_in]

GraphTokensNoExpiry(config, resp, t) ==
  [config EXCEPT !.AccessToken = resp.access_token,
                 !.TokenType = resp.token_type]

\* the assignments of InstagramProvider.RefreshToken, lines 207-211, and
\* of facebook's Provider.RefreshToken, lines 221-225
GraphTokens(config, resp, t) ==
  [config EXCEPT !.AccessToken = resp.access_token,
                 !.TokenType = resp.token_type,
                 !.ExpiresAt = t + resp.expires_in]

RefreshTokenUnchecked(variant, config, resp, t) ==
  IF RefreshFailure(resp) # NoError
  THEN [err |-> RefreshFailure(resp), config |-> config, sent |-> TRUE]
  ELSE IF resp.access_token = ""
  THEN [err |-> NoError, config |-> config, sent |-> TRUE]
  ELSE [err |-> NoError, sent |-> TRUE,
        config |-> IF variant = ProviderTypeTikTok
                   THEN TikTokTokens(config, resp, t)
                   ELSE GraphTokens(config, resp, t)]

\* Provider.RefreshToken of the three variants at time t (seconds): the
\* returned error, the bound config afterwards and whether a request was sent
RefreshToken(variant, config, resp, t) ==
  IF config.RefreshToken = ""
  THEN [err |-> <<"no refresh token available">>, config |-> config,
        sent |-> FALSE]
  ELSE IF RefreshFailure(resp) # NoError
  THEN [err |-> RefreshFailure(resp), config |-> config, sent |-> TRUE]
  ELSE IF resp.access_token = ""
  THEN [err |-> NoError, config |-> config, sent |-> TRUE]
  ELSE [err |-> NoError, sent |-> TRUE,
        config |-> IF variant = ProviderTypeTikTok
                   THEN TikTokTokens(config, resp, t)
                   ELSE GraphTokens(config, resp, t)]

\* the nil *ProviderConfig
NoConfig ==
  [AccessToken |-> "", RefreshToken |-> "", TokenType |-> "", ExpiresAt |-> 0]

RefreshProviderTokenNoSave(u, name, resp, saveOk, t) ==
  LET cfg == GetProviderConfig(u, name)
      p == CHOOSE p \in ActiveIds(u, name) : TRUE
      mk == CreateProvider(name)
      r == RefreshToken(name, LoadConfig(creds[u][p]), resp, t)
  IN IF cfg # NoError
     THEN [err |-> Wrap("failed to get provider config", cfg),
           sent |-> FALSE, config |-> NoConfig, rows |-> creds[u]]
     ELSE IF mk # NoError
     THEN [err |-> Wrap("failed to create provider", mk),
           sent |-> FALSE, config |-> NoConfig, rows |-> creds[u]]
     ELSE IF r.err # NoError
     THEN [err |-> Wrap("failed to refresh token", r.err),
           sent |-> r.sent, config |-> r.config, rows |-> creds[u]]
     ELSE [err |-> NoError, sent |-> r.sent, config |-> r.config,
           rows |-> creds[u]]

\* ProviderService.RefreshProviderToken at time t; saveOk tells whether
\* db.Save of updateProviderConfig succeeds.  The returned error, whether a
\* request went to the platform, the in-memory config after the provider's
\* RefreshToken, and the rows of the tenant's store afterwards.
RefreshProviderToken(u, name, resp, saveOk, t) ==
  LET cfg == GetProviderConfig(u, name)
      p == CHOOSE p \in ActiveIds(u, name) : TRUE
      mk == CreateProvider(name)
      r == RefreshToken(name, LoadConfig(creds[u][p]), resp, t)
  IN IF cfg # NoError
     THEN [err |-> Wrap("failed to get provider config", cfg),
           sent |-> FALSE, config |-> NoConfig, rows |-> creds[u]]
     ELSE IF mk # NoError
     THEN [err |-> Wrap("failed to create provider", mk),
           sent |-> FALSE, config |-> NoConfig, rows |-> creds[u]]
     ELSE IF r.err # NoError
     THEN [err |-> Wrap("failed to refresh token", r.err),
           sent |-> r.sent, config |-> r.config, rows |-> creds[u]]
     ELSE IF ~saveOk
     THEN [err |-> Wrap("failed to update provider config",
                        <<"failed to save provider config">>),
           sent |-> r.sent, config |-> r.config, rows |-> creds[u]]
     ELSE [err |-> NoError, sent |-> r.sent, config |-> r.config,
           rows |-> [creds[u] EXCEPT ![p] = StoreConfig(@, r.config)]]

\* ------------------------------------------------------------ scheduler
DueJobsStrict(u, t) ==
  {j \in JobIds : /\ jobs[j].tenant = u
                  /\ jobs[j].status = JobStatusPending
                  /\ jobs[j].scheduled_at < t}

DueJobsAnyTime(u, t) ==
  {j \in JobIds : /\ jobs[j].tenant = u
                  /\ jobs[j].status = JobStatusPending}

DueJobsRetry(u, t) ==
  {j \in JobIds : /\ jobs[j].tenant = u
                  /\ jobs[j].status \in {JobStatusPending, JobStatusFailed}
                  /\ jobs[j].scheduled_at <= t}

DueJobsResume(u, t) ==
  {j \in JobIds : /\ jobs[j].tenant = u
                  /\ jobs[j].status \in {JobStatusPending,
                                         JobStatusExecuting}
                  /\ jobs[j].scheduled_at <= t}

DueJobsUnfinished(u, t) ==
  {j \in JobIds : /\ jobs[j].tenant = u
                  /\ jobs[j].status # JobStatusCompleted
                  /\ jobs[j].scheduled_at <= t}

\* processUserJobs' query: status = pending AND scheduled_at <= now
DueJobs(u, t) ==
  {j \in JobIds : /\ jobs[j].tenant = u
                  /\ jobs[j].status = JobStatusPending
                  /\ jobs[j].scheduled_at <= t}

IdleTick ==
  [pc |-> "idle", todo |-> {}, user |-> "none", queue |-> {}, job |-> 0,
   outcome |-> NoError,
   \* what the tick has seen and done, in the order of its log lines
   startDue |-> {}, snap |-> {}, attempted |-> {},
   errJobs |-> {}, errUsers |-> {},
   \* the handles of the snapshot: for each tenant, the closes of its store
   \* before the handle was copied
   handles |-> [u \in Tenants |-> 0]]

\* Next statement of processJobs/processUserJobs once the current job or
\* tenant is over: the next job of the tenant, else the next tenant, else
\* the end of processJobs.
Advance(t) ==
  IF t.queue # {} THEN [t EXCEPT !.pc = "jobs", !.job = 0]
  ELSE IF t.todo # {} THEN [t EXCEPT !.pc = "users", !.job = 0,
                                     !.user = "none"]
  ELSE [t EXCEPT !.pc = "done", !.job = 0, !.user = "none"]

AfterJobErrorAbort(t) == Advance([t EXCEPT !.queue = {}])

\* processUserJobs, lines 96-100: a job's error is logged, the loop goes on
AfterJobError(t) == Advance(t)

\* processJobs, lines 72-76: a tenant's error is logged, the loop goes on
AfterUserError(t) == Advance(t)

BeginTickAllTenants ==
  Advance([IdleTick EXCEPT
             !.todo = Tenants, !.snap = dbs, !.handles = closes,
             !.startDue = {j \in JobIds :
                             /\ jobs[j].status = JobStatusPending
                             /\ jobs[j].scheduled_at <= now}])

\* processJobs up to the range loop: GetAllUserDatabases copies the cache
BeginTick ==
  Advance([IdleTick EXCEPT
             !.todo = dbs, !.snap = dbs, !.handles = closes,
             !.startDue = {j \in JobIds :
                             /\ jobs[j].status = JobStatusPending
                             /\ jobs[j].scheduled_at <= now}])

Active(r) == tick[r].pc \notin {"idle", "done"}

\* the record of a provider service call
Called(op, u, name, resp, before, res) ==
  [op |-> op, tenant |-> u, name |-> name, resp |-> resp,
   before |-> before, after |-> res.config, err |-> res.err,
   ok |-> res.ok, called |-> res.called, sent |-> res.sent,
   storeOk |-> res.storeOk]

NoResponse ==
  [kind |-> "none", access_token |-> "", refresh_token |-> "",
   token_type |-> "", expires_in |-> 0]

NoResult ==
  [config |-> NoConfig, err |-> NoError, ok |-> FALSE, called |-> FALSE,
   sent |-> FALSE, storeOk |-> TRUE]

NoCall == Called("none", "none", "", NoResponse, NoConfig, NoResult)

\* goroutines that call Manager.GetDB at the same time (HTTP handlers, the
\* scheduler)
Goroutines == {"g1", "g2", "g3"}
IdleCall ==
  [pc |-> "idle", user |-> "none", ret |-> 0, err |-> FALSE, slow |-> FALSE]

\* the posting endpoint before its first request
NoRequest ==
  [n |-> 0, schedule_at |-> "none", at |-> 0, code |-> 0,
   published |-> FALSE]

\* a process that has just started: nothing scheduled, nothing open
SchedulerInit ==
  /\ now = 1
  /\ jobs = <<>>
  /\ posts = <<>>
  /\ dispatched = <<>>
  /\ platformCalls = <<>>
  /\ dbs = {}
  /\ proc = "up"
  /\ restarts = 0
  /\ faults = 0
  /\ mainPc = "new"
  /\ loopPc = "none"
  /\ tickerOn = FALSE
  /\ tickerC = 0
  /\ stopClosed = FALSE
  /\ tick = [r \in Runners |-> IdleTick]

ManagerInit ==
  /\ mu = [writer |-> "none", readers |-> {}]
  /\ cache = [u \in {} |-> 0]
  /\ opened = [u \in Tenants |-> 0]
  /\ call = [g \in Goroutines |-> IdleCall]

\* no Get and no GetSupportedProviders since the last Register
NoLookup ==
  [op |-> "none", tag |-> "", provider |-> "nil", err |-> NoError,
   list |-> <<>>]

\* NewProviderRegistry: make(map[ProviderType]Provider)
RegistryInit ==
  /\ registry = [tag \in {} |-> "nil"]
  /\ regLog = <<>>
  /\ regOut = NoLookup

\* sha256.Sum256 printed with %x: a text that is not the token
Sha256(token) == <<"sha256", token>>

\* database.APIToken; deleted_at and last_used are NULL (0) or a time
APIToken(hash, deleted_at) ==
  [hash |-> hash, deleted_at |-> deleted_at, last_used |-> 0]

\* the auth middleware before its first request
NoAuth ==
  [n |-> 0, header |-> <<"">>, code |-> 0, invoked |-> FALSE, id |-> 0,
   at |-> 0, canOpen |-> TRUE, queryOk |-> TRUE, saveOk |-> TRUE]

\* the token the tests create, and an older one that was deleted
TokensInit ==
  /\ tokens = (1 :> APIToken(Sha256("t1"), 0) @@
               2 :> APIToken(Sha256("t2"), 1))
  /\ auth = NoAuth

getUserID == "u1"   \* "default_user"

\* the objects of the other packages, as their constructors leave them
NoClose == [n |-> 0, op |-> "none", user |-> "none", err |-> FALSE]
NoStop == [n |-> 0, panicked |-> FALSE, started |-> FALSE]

MoreInit ==
  /\ RegistryInit
  /\ TokensInit
  /\ closes = [u \in Tenants |-> 0]
  /\ closeRes = NoClose
  /\ stops = NoStop

Init ==
  /\ SchedulerInit
  /\ ManagerInit
  /\ creds = ProviderRows
  /\ storeDown = {}
  /\ svc = NoCall
  /\ api = NoRequest
  /\ MoreInit

\* ------------------------------------------------------------ environment
\* The clock advances by one ticker period; a running ticker puts a tick
\* into its channel unless one is already waiting there.
Clock ==
  /\ now + TickInterval <= MaxTime
  /\ now' = now + TickInterval
  /\ tickerC' = IF tickerOn THEN 1 ELSE tickerC
  /\ UNCHANGED <<jobs, posts, dispatched, platformCalls, dbs, proc,
                 restarts, faults, mainPc, loopPc, tickerOn, stopClosed,
                 tick>>
  /\ UNCHANGED extVars

\* Manager.GetDB: open the tenant's store and cache the handle
GetDB(u) ==
  /\ proc = "up"
  /\ u \notin dbs
  /\ u \notin storeDown
  /\ dbs' = dbs \cup {u}
  /\ UNCHANGED <<now, jobs, posts, dispatched, platformCalls, proc,
                 restarts, faults, mainPc, loopPc, tickerOn, tickerC,
                 stopClosed, tick>>
  /\ UNCHANGED extVars

\* db.Create(&job) on an open handle: a pending job one minute in the past
\* or one minute in the future
InsertJob(u, in, at) ==
  /\ proc = "up"
  /\ u \in dbs
  /\ Len(jobs) < MaxJobs
  /\ at \in {now - 1, now + 1}
  /\ jobs' = Append(jobs,
       [tenant |-> u, job_type |-> in.job_type,
        payload |-> Len(jobs) + 1, provider_id |-> in.provider_id,
        scheduled_at |-> at, executed_at |-> 0,
        status |-> JobStatusPending, error_msg |-> NoError])
  /\ dispatched' = Append(dispatched, 0)
  /\ platformCalls' = Append(platformCalls, 0)
  /\ UNCHANGED <<now, posts, dbs, proc, restarts, faults, mainPc, loopPc,
                 tickerOn, tickerC, stopClosed, tick>>
  /\ UNCHANGED extVars

\* The process ends: memory is lost, the stores stay
Down ==
  /\ dbs' = {}
  /\ mainPc' = "new"
  /\ loopPc' = "none"
  /\ tickerOn' = FALSE
  /\ tickerC' = 0
  /\ stopClosed' = FALSE
  /\ tick' = [r \in Runners |-> IdleTick]
  /\ UNCHANGED <<now, jobs, posts, dispatched, platformCalls, faults>>
  /\ UNCHANGED extVars

\* The process dies at any point (kill, panic, power loss) and its
\* supervisor starts it again
Crash ==
  /\ proc = "up"
  /\ restarts < MaxRestarts
  /\ restarts' = restarts + 1
  /\ proc' = "up"
  /\ Down

\* main returns after Stop: the process exits
MainExit ==
  /\ proc = "up"
  /\ mainPc = "stopped"
  /\ proc' = "down"
  /\ UNCHANGED restarts
  /\ Down

Restart ==
  /\ proc = "down"
  /\ restarts < MaxRestarts
  /\ proc' = "up"
  /\ restarts' = restarts + 1
  /\ UNCHANGED <<now, jobs, posts, dispatched, platformCalls, dbs, faults,
                 mainPc, loopPc, tickerOn, tickerC, stopClosed, tick>>
  /\ UNCHANGED extVars

\* ------------------------------------------------------- scheduler steps
Step(r) == proc = "up" /\ tick[r].pc # "idle"

\* processUserJobs, lines 82-93: the query succeeds
QueryUser(r, u) ==
  /\ Step(r)
  /\ tick[r].pc = "users"
  /\ u \in tick[r].todo
  /\ tick' = [tick EXCEPT ![r] =
       Advance([@ EXCEPT !.todo = @ \ {u}, !.user = u,
                         !.queue = DueJobs(u, now)])]
  /\ UNCHANGED <<now, jobs, posts, dispatched, platformCalls, dbs, proc,
                 restarts, faults, mainPc, loopPc, tickerOn, tickerC,
                 stopClosed>>
  /\ UNCHANGED extVars

\* processUserJobs, lines 89-91: the query fails, processJobs logs it
QueryUserFails(r, u) ==
  /\ Step(r)
  /\ tick[r].pc = "users"
  /\ u \in tick[r].todo
  /\ faults < MaxFaults
  /\ faults' = faults + 1
  /\ tick' = [tick EXCEPT ![r] =
       AfterUserError([@ EXCEPT !.todo = @ \ {u},
                                !.errUsers = @ \cup {u}])]
  /\ UNCHANGED <<now, jobs, posts, dispatched, platformCalls, dbs, proc,
                 restarts, mainPc, loopPc, tickerOn, tickerC, stopClosed>>
  /\ UNCHANGED extVars

\* The job the range loop takes next
TakeJob(t, j) ==
  [t EXCEPT !.queue = @ \ {j}, !.job = j,
            !.attempted = @ \cup {j}]

SaveExecutingFailedIgnored(t, j) ==
  [TakeJob(t, j) EXCEPT !.pc = "dispatch", !.errJobs = @ \cup {j}]

SaveExecutingFailedEndsLoop(t, j) ==
  AfterJobError([TakeJob(t, j) EXCEPT !.errJobs = @ \cup {j}, !.queue = {}])

\* processJob, lines 113-115: the save of Executing fails, processJob
\* returns the error
SaveExecutingFailed(t, j) ==
  AfterJobError([TakeJob(t, j) EXCEPT !.errJobs = @ \cup {j}])

\* processJob, lines 110-115: Executing is saved
MarkExecuting(r, j) ==
  /\ Step(r)
  /\ tick[r].pc = "jobs"
  /\ j \in tick[r].queue
  /\ jobs' = [jobs EXCEPT ![j].status = JobStatusExecuting]
  /\ tick' = [tick EXCEPT ![r] = [TakeJob(@, j) EXCEPT !.pc = "dispatch"]]
  /\ UNCHANGED <<now, posts, dispatched, platformCalls, dbs, proc, restarts,
                 faults, mainPc, loopPc, tickerOn, tickerC, stopClosed>>
  /\ UNCHANGED extVars

MarkExecutingFails(r, j) ==
  /\ Step(r)
  /\ tick[r].pc = "jobs"
  /\ j \in tick[r].queue
  /\ faults < MaxFaults
  /\ faults' = faults + 1
  /\ tick' = [tick EXCEPT ![r] = SaveExecutingFailed(@, j)]
  /\ UNCHANGED <<now, jobs, posts, dispatched, platformCalls, dbs, proc,
                 restarts, mainPc, loopPc, tickerOn, tickerC, stopClosed>>
  /\ UNCHANGED extVars

JobOutcomeNoDefault(u, j, platformOk) ==
  LET name == PreloadedName(u, jobs[j].provider_id)
      res == PublishContent(u, name, platformOk)
  IN IF name = ""
     THEN [err |-> <<"Provider name not found">>,
           dispatched |-> FALSE, called |-> FALSE]
     ELSE [err |-> IF res.err = NoError THEN NoError
                   ELSE Wrap("Failed to publish content", res.err),
           dispatched |-> TRUE, called |-> res.called]

\* processJob's switch and processPublishPostJob up to the publish: the
\* error text the job ends with (NoError: published), whether
\* PublishContent was called and whether Provider.Publish was called
JobOutcome(u, j, platformOk) ==
  LET name == PreloadedName(u, jobs[j].provider_id)
      res == PublishContent(u, name, platformOk)
  IN IF jobs[j].job_type = "publish_post"
     THEN IF name = ""
          THEN [err |-> <<"Provider name not found">>,
                dispatched |-> FALSE, called |-> FALSE]
          ELSE [err |-> IF res.err = NoError THEN NoError
                        ELSE Wrap("Failed to publish content", res.err),
                dispatched |-> TRUE, called |-> res.called]
     ELSE [err |-> <<"Unknown job type", jobs[j].job_type>>,
           dispatched |-> FALSE, called |-> FALSE]

\* processJob, lines 118-123, and processPublishPostJob, lines 129-137
Dispatch(r, platformOk) ==
  /\ Step(r)
  /\ tick[r].pc = "dispatch"
  /\ LET j == tick[r].job
         o == JobOutcome(tick[r].user, j, platformOk)
     IN /\ dispatched' = [dispatched EXCEPT
                            ![j] = IF o.dispatched THEN @ + 1 ELSE @]
        /\ platformCalls' = [platformCalls EXCEPT
                               ![j] = IF o.called THEN @ + 1 ELSE @]
        /\ tick' = [tick EXCEPT ![r].pc = "finish", ![r].outcome = o.err]
        \* PublishContent asks the manager for the tenant's handle
        /\ dbs' = IF o.dispatched THEN ServiceGetDB(tick[r].user) ELSE dbs
  /\ UNCHANGED <<now, jobs, posts, proc, restarts, faults, mainPc,
                 loopPc, tickerOn, tickerC, stopClosed>>
  /\ UNCHANGED extVars

MarkJobFailedNoMessage(job, errorMsg) ==
  [job EXCEPT !.status = JobStatusFailed]

\* markJobFailed, lines 168-169: the fields it sets before the save
MarkJobFailed(job, errorMsg) ==
  [job EXCEPT !.status = JobStatusFailed, !.error_msg = errorMsg]

\* processPublishPostJob, lines 154-155: the fields it sets before the save
MarkJobCompleted(job, t) ==
  [job EXCEPT !.status = JobStatusCompleted, !.executed_at = t]

NewPostNoProvider(u, j) ==
  [content |-> jobs[j].payload, tenant |-> u, provider_id |-> 0]

\* processPublishPostJob, lines 140-146: the post row of a published job
NewPost(u, j) ==
  [content |-> jobs[j].payload, tenant |-> u,
   provider_id |-> jobs[j].provider_id]

\* processPublishPostJob, lines 140-163 (published), and markJobFailed
\* (an error text): the post row and the final status are written; postOk
\* and saveOk tell whether db.Create and db.Save succeed
Finish(r, postOk, saveOk) ==
  /\ Step(r)
  /\ tick[r].pc = "finish"
  /\ LET j == tick[r].job
         published == tick[r].outcome = NoError
         cost == (IF published /\ ~postOk THEN 1 ELSE 0)
                   + (IF saveOk THEN 0 ELSE 1)
     IN /\ published \/ postOk
        /\ faults + cost <= MaxFaults
        /\ faults' = faults + cost
        /\ posts' = IF published /\ postOk
                    THEN Append(posts, NewPost(tick[r].user, j))
                    ELSE posts
        /\ jobs' = IF ~saveOk THEN jobs
                   ELSE IF published
                   THEN [jobs EXCEPT ![j] = MarkJobCompleted(@, now)]
                   ELSE [jobs EXCEPT ![j] = MarkJobFailed(@, tick[r].outcome)]
        /\ tick' = [tick EXCEPT ![r] =
                      IF saveOk THEN Advance(@)
                      ELSE AfterJobError([@ EXCEPT !.errJobs = @ \cup {j}])]
  /\ UNCHANGED <<now, dispatched, platformCalls, dbs, proc, restarts,
                 mainPc, loopPc, tickerOn, tickerC, stopClosed>>
  /\ UNCHANGED extVars

\* ------------------------------------------------- Start, the loop, Stop
\* Start, lines 32-35: main runs the startup tick itself
Start ==
  /\ proc = "up"
  /\ mainPc = "new"
  /\ mainPc' = "start"
  /\ tick' = [tick EXCEPT !["main"] = BeginTick]
  /\ UNCHANGED <<now, jobs, posts, dispatched, platformCalls, dbs, proc,
                 restarts, faults, loopPc, tickerOn, tickerC, stopClosed>>
  /\ UNCHANGED extVars

StartSpawnEarly ==
  /\ proc = "up"
  /\ mainPc = "start"
  /\ loopPc = "none"
  /\ loopPc' = "select"
  /\ tickerOn' = TRUE
  /\ mainPc' = IF tick["main"].pc = "done" THEN "started" ELSE mainPc
  /\ tick' = IF tick["main"].pc = "done"
             THEN [tick EXCEPT !["main"] = IdleTick] ELSE tick
  /\ UNCHANGED <<now, jobs, posts, dispatched, platformCalls, dbs, proc,
                 restarts, faults, tickerC, stopClosed>>
  /\ UNCHANGED extVars

\* Start, lines 38-50: once processJobs has returned, the ticker is made
\* and the goroutine started
StartSpawn ==
  /\ proc = "up"
  /\ mainPc = "start"
  /\ tick["main"].pc = "done"
  /\ mainPc' = "started"
  /\ tickerOn' = TRUE
  /\ loopPc' = "select"
  /\ tick' = [tick EXCEPT !["main"] = IdleTick]
  /\ UNCHANGED <<now, jobs, posts, dispatched, platformCalls, dbs, proc,
                 restarts, faults, tickerC, stopClosed>>
  /\ UNCHANGED extVars

\* select, case <-s.ticker.C
LoopTick ==
  /\ proc = "up"
  /\ loopPc = "select"
  /\ tickerC = 1
  /\ tickerC' = 0
  /\ loopPc' = "tick"
  /\ tick' = [tick EXCEPT !["loop"] = BeginTick]
  /\ UNCHANGED <<now, jobs, posts, dispatched, platformCalls, dbs, proc,
                 restarts, faults, mainPc, tickerOn, stopClosed>>
  /\ UNCHANGED extVars

\* processJobs returns to the for loop
LoopBack ==
  /\ proc = "up"
  /\ loopPc = "tick"
  /\ tick["loop"].pc = "done"
  /\ loopPc' = "select"
  /\ tick' = [tick EXCEPT !["loop"] = IdleTick]
  /\ UNCHANGED <<now, jobs, posts, dispatched, platformCalls, dbs, proc,
                 restarts, faults, mainPc, tickerOn, tickerC, stopClosed>>
  /\ UNCHANGED extVars

\* select, case <-s.stopChan
LoopStop ==
  /\ proc = "up"
  /\ loopPc = "select"
  /\ stopClosed
  /\ loopPc' = "exited"
  /\ UNCHANGED <<now, jobs, posts, dispatched, platformCalls, dbs, proc,
                 restarts, faults, mainPc, tickerOn, tickerC, stopClosed,
                 tick>>
  /\ UNCHANGED extVars

\* Stop, called by main on SIGINT/SIGTERM
Stop ==
  /\ proc = "up"
  /\ mainPc = "started"
  /\ tickerOn' = FALSE
  /\ stopClosed' = TRUE
  /\ mainPc' = "stopped"
  /\ UNCHANGED <<now, jobs, posts, dispatched, platformCalls, dbs, proc,
                 restarts, faults, loopPc, tickerC, tick>>
  /\ UNCHANGED extVars

Next ==
  \/ Clock
  \/ \E u \in Tenants : GetDB(u)
  \/ \E u \in Tenants, in \in JobInputs, at \in 0..MaxTime :
       InsertJob(u, in, at)
  \/ Crash
  \/ MainExit
  \/ Restart
  \/ Start
  \/ StartSpawn
  \/ LoopTick
  \/ LoopBack
  \/ LoopStop
  \/ Stop
  \/ \E r \in Runners, u \in Tenants : QueryUser(r, u)
  \/ \E r \in Runners, u \in Tenants : QueryUserFails(r, u)
  \/ \E r \in Runners, j \in JobIds : MarkExecuting(r, j)
  \/ \E r \in Runners, j \in JobIds : MarkExecutingFails(r, j)
  \/ \E r \in Runners, ok \in BOOLEAN : Dispatch(r, ok)
  \/ \E r \in Runners, postOk \in BOOLEAN, saveOk \in BOOLEAN :
       Finish(r, postOk, saveOk)

Spec == Init /\ [][Next]_vars

\* ========================================================= Manager.GetDB
\* The goroutines of one process call GetDB concurrently.  A handle is
\* named by the number of the gorm.Open that made it.
schedVars == <<now, jobs, posts, dispatched, platformCalls, dbs, proc,
               restarts, faults, mainPc, loopPc, tickerOn, tickerC,
               stopClosed, tick>>
svcVars == <<creds, storeDown, svc>>

CreateOrOpenDBNoCheck(u, openOk) ==
  IF ~openOk
  THEN [cache |-> cache, opened |-> opened, ret |-> 0, err |-> TRUE]
  ELSE [cache |-> [v \in DOMAIN cache \cup {u} |->
                     IF v = u THEN opened[u] + 1 ELSE cache[v]],
        opened |-> [opened EXCEPT ![u] = @ + 1],
        ret |-> opened[u] + 1, err |-> FALSE]

\* createOrOpenDB under the write lock, lines 43-63: the double check, then
\* MkdirAll, gorm.Open and the migrations (openOk: all three succeed), then
\* the handle is put into the map
CreateOrOpenDB(u, openOk) ==
  IF u \in DOMAIN cache
  THEN [cache |-> cache, opened |-> opened, ret |-> cache[u], err |-> FALSE]
  ELSE IF ~openOk
  THEN [cache |-> cache, opened |-> opened, ret |-> 0, err |-> TRUE]
  ELSE [cache |-> [v \in DOMAIN cache \cup {u} |->
                     IF v = u THEN opened[u] + 1 ELSE cache[v]],
        opened |-> [opened EXCEPT ![u] = @ + 1],
        ret |-> opened[u] + 1, err |-> FALSE]

\* a goroutine calls GetDB(u)
GetDBCall(g, u) ==
  /\ call[g].pc = "idle"
  /\ call' = [call EXCEPT ![g] = [IdleCall EXCEPT !.pc = "start",
                                                   !.user = u]]
  /\ UNCHANGED <<schedVars, svcVars, mu, cache, opened, api, moreVars>>

\* GetDB, line 29: m.mutex.RLock()
RLock(g) ==
  /\ call[g].pc = "start"
  /\ mu.writer = "none"
  /\ mu' = [mu EXCEPT !.readers = @ \cup {g}]
  /\ call' = [call EXCEPT ![g].pc = "rlocked"]
  /\ UNCHANGED <<schedVars, svcVars, cache, opened, api, moreVars>>

\* GetDB, lines 30-34: the lookup under the read lock, and RUnlock
Lookup(g) ==
  /\ call[g].pc = "rlocked"
  /\ mu' = [mu EXCEPT !.readers = @ \ {g}]
  /\ call' = [call EXCEPT ![g] =
       IF call[g].user \in DOMAIN cache
       THEN [@ EXCEPT !.pc = "returned", !.ret = cache[call[g].user]]
       ELSE [@ EXCEPT !.pc = "create", !.slow = TRUE]]
  /\ UNCHANGED <<schedVars, svcVars, cache, opened, api, moreVars>>

\* createOrOpenDB, line 40: m.mutex.Lock()
Lock(g) ==
  /\ call[g].pc = "create"
  /\ mu.writer = "none"
  /\ mu.readers = {}
  /\ mu' = [mu EXCEPT !.writer = g]
  /\ call' = [call EXCEPT ![g].pc = "locked"]
  /\ UNCHANGED <<schedVars, svcVars, cache, opened, api, moreVars>>

\* createOrOpenDB, lines 41-63, and the deferred Unlock
CreateOrOpen(g, openOk) ==
  /\ call[g].pc = "locked"
  /\ LET res == CreateOrOpenDB(call[g].user, openOk)
     IN /\ cache' = res.cache
        /\ opened' = res.opened
        /\ call' = [call EXCEPT ![g].pc = "returned", ![g].ret = res.ret,
                                 ![g].err = res.err]
  /\ mu' = [mu EXCEPT !.writer = "none"]
  /\ UNCHANGED <<schedVars, svcVars, api, moreVars>>

\* the caller is done with the result
Return(g) ==
  /\ call[g].pc = "returned"
  /\ call' = [call EXCEPT ![g] = IdleCall]
  /\ UNCHANGED <<schedVars, svcVars, mu, cache, opened, api, moreVars>>

ManagerNext ==
  \/ \E g \in Goroutines, u \in Tenants : GetDBCall(g, u)
  \/ \E g \in Goroutines : RLock(g)
  \/ \E g \in Goroutines : Lookup(g)
  \/ \E g \in Goroutines : Lock(g)
  \/ \E g \in Goroutines, openOk \in BOOLEAN : CreateOrOpen(g, openOk)
  \/ \E g \in Goroutines : Return(g)

ManagerSpec == Init /\ [][ManagerNext]_vars

\* ================================================== CloseDB and CloseAll
\* The goroutines of ManagerSpec, and calls of CloseDB and CloseAll between
\* their steps.  Both hold the write lock from their first statement to
\* their return.
Without(map, gone) == [v \in DOMAIN map \ gone |-> map[v]]

CloseDBAll(u, closeOk) ==
  IF u \notin DOMAIN cache THEN [cache |-> cache, err |-> FALSE]
  ELSE IF ~closeOk THEN [cache |-> cache, err |-> TRUE]
  ELSE [cache |-> Without(cache, DOMAIN cache), err |-> FALSE]

\* CloseDB, lines 79-92; closeOk: db.DB() and sqlDB.Close() succeed
CloseDBResult(u, closeOk) ==
  IF u \notin DOMAIN cache THEN [cache |-> cache, err |-> FALSE]
  ELSE IF ~closeOk THEN [cache |-> cache, err |-> TRUE]
  ELSE [cache |-> Without(cache, {u}), err |-> FALSE]

\* CloseAll, lines 99-112; failing: the tenants whose db.DB() or
\* sqlDB.Close() fails
CloseAllResult(failing) ==
  [cache |-> Without(cache, DOMAIN cache \ failing), err |-> FALSE]

closeFrame == <<schedVars, svcVars, mu, opened, call, api, regVars,
                authVars, closes, stops>>

CloseDBCall(u, closeOk) ==
  /\ closeRes.n < MaxCloseCalls
  /\ mu.writer = "none"
  /\ mu.readers = {}
  /\ LET res == CloseDBResult(u, closeOk)
     IN /\ cache' = res.cache
        /\ closeRes' = [n |-> closeRes.n + 1, op |-> "CloseDB", user |-> u,
                        err |-> res.err]
  /\ UNCHANGED closeFrame

CloseAllCall(failing) ==
  /\ closeRes.n < MaxCloseCalls
  /\ mu.writer = "none"
  /\ mu.readers = {}
  /\ LET res == CloseAllResult(failing)
     IN /\ cache' = res.cache
        /\ closeRes' = [n |-> closeRes.n + 1, op |-> "CloseAll",
                        user |-> "none", err |-> res.err]
  /\ UNCHANGED closeFrame

CloseNext ==
  \/ ManagerNext
  \/ \E u \in Tenants, closeOk \in BOOLEAN : CloseDBCall(u, closeOk)
  \/ \E failing \in SUBSET Tenants : CloseAllCall(failing)

CloseSpec == Init /\ [][CloseNext]_vars

\* ====================================================== provider service
\* One call of an operation of ProviderService, of the factory or of a
\* provider, on tenant stores that hold any credentials.
SvcNames == {"tiktok", "instagram", "facebook", "my_page"}
TypeTags == {ProviderTypeTikTok, ProviderTypeInstagram, ProviderTypeFacebook,
             "twitter", ""}

\* a credential named after its type, as the OAuth callback saves it, or
\* an instance with a name of its own
CredRows ==
  {ProviderRow(n, IF n = "my_page" THEN ProviderTypeFacebook ELSE n, a,
               StoredConfig("a0", r, 3)) :
     n \in SvcNames, a \in BOOLEAN, r \in {"", "r0"}}

\* the providers table: Name has a unique index
Stores ==
  {st \in UNION {[ids -> CredRows] : ids \in SUBSET ProviderIds} :
     \A p, q \in DOMAIN st : p # q => st[p].name # st[q].name}

\* the configs a provider can be bound to
Configs ==
  [AccessToken : {"a0"}, RefreshToken : {"", "r0"}, TokenType : {"bearer"},
   ExpiresAt : {1}]

SvcInit ==
  /\ SchedulerInit
  /\ ManagerInit
  /\ creds \in {[u \in Tenants |-> IF u = "u1" THEN st ELSE ProviderRows[u]] :
                  st \in Stores}
  /\ storeDown \in SUBSET Tenants
  /\ svc = NoCall
  /\ api = NoRequest
  /\ MoreInit

svcFrame == <<now, jobs, posts, dispatched, platformCalls, proc, restarts,
              faults, mainPc, loopPc, tickerOn, tickerC, stopClosed, tick,
              storeDown, mu, cache, opened, call, api, moreVars>>

IsProviderConfiguredCall(u, name, queryOk) ==
  /\ svc = NoCall
  /\ LET r == IsProviderConfigured(u, name, queryOk)
     IN svc' = Called("configured", u, name, NoResponse, NoConfig,
                      [NoResult EXCEPT !.ok = r.ok, !.err = r.err,
                                       !.storeOk = queryOk])
  /\ dbs' = ServiceGetDB(u)
  /\ UNCHANGED <<svcFrame, creds>>

CreateProviderCall(type) ==
  /\ svc = NoCall
  /\ svc' = Called("create", "none", type, NoResponse, NoConfig,
                   [NoResult EXCEPT
                      !.err = CreateProvider(type),
                      !.sent = CreateProvider(type) = NoError
                                 /\ NewProvider(type).requests > 0])
  /\ UNCHANGED <<svcFrame, creds, dbs>>

PublishContentCall(u, name, platformOk) ==
  /\ svc = NoCall
  /\ LET r == PublishContent(u, name, platformOk)
     IN svc' = Called("publish", u, name, NoResponse, NoConfig,
                      [NoResult EXCEPT !.err = r.err, !.called = r.called,
                                       !.sent = r.called])
  /\ dbs' = ServiceGetDB(u)
  /\ UNCHANGED <<svcFrame, creds>>

\* Provider.RefreshToken on a provider made by the factory for config
RefreshTokenCall(variant, config, resp) ==
  /\ svc = NoCall
  /\ LET r == RefreshToken(variant, config, resp, now)
     IN svc' = Called("refreshToken", "none", variant, resp, config,
                      [NoResult EXCEPT !.config = r.config, !.err = r.err,
                                       !.sent = r.sent])
  /\ UNCHANGED <<svcFrame, creds, dbs>>

RefreshProviderTokenCall(u, name, resp, saveOk) ==
  /\ svc = NoCall
  /\ LET r == RefreshProviderToken(u, name, resp, saveOk, now)
         before == IF CanOpen(u) /\ ActiveIds(u, name) # {}
                   THEN LoadConfig(
                          creds[u][CHOOSE p \in ActiveIds(u, name) : TRUE])
                   ELSE NoConfig
     IN /\ svc' = Called("refresh", u, name, resp, before,
                         [NoResult EXCEPT !.config = r.config,
                                          !.err = r.err, !.sent = r.sent,
                                          !.storeOk = saveOk])
        /\ creds' = [creds EXCEPT ![u] = r.rows]
  /\ dbs' = ServiceGetDB(u)
  /\ UNCHANGED svcFrame

SvcNext ==
  \/ \E u \in Tenants, name \in SvcNames, queryOk \in BOOLEAN :
       IsProviderConfiguredCall(u, name, queryOk)
  \/ \E type \in TypeTags : CreateProviderCall(type)
  \/ \E u \in Tenants, name \in SvcNames, platformOk \in BOOLEAN :
       PublishContentCall(u, name, platformOk)
  \/ \E variant \in {ProviderTypeTikTok, ProviderTypeInstagram,
                      ProviderTypeFacebook},
        config \in Configs, resp \in Responses :
       RefreshTokenCall(variant, config, resp)
  \/ \E u \in Tenants, name \in SvcNames, resp \in Responses,
        saveOk \in BOOLEAN :
       RefreshProviderTokenCall(u, name, resp, saveOk)

SvcSpec == SvcInit /\ [][SvcNext]_vars

\* ============================================================ Stop calls
\* A caller that holds a scheduler made by New calls Start at most once
\* and Stop any number of times, before or after Start.  A panic of Stop
\* is not recovered: it ends the process.
StopResultIdempotent(ticker, closed) ==
  [tickerOn |-> FALSE, stopClosed |-> TRUE, panic |-> FALSE]

\* Stop, lines 56-60: s.ticker.Stop() when there is a ticker, then
\* close(s.stopChan), which panics on a closed channel
StopResult(ticker, closed) ==
  [tickerOn |-> FALSE, stopClosed |-> TRUE, panic |-> closed]

StopCall ==
  /\ proc = "up"
  /\ mainPc \in {"new", "started", "stopped"}
  /\ stops.n < MaxStops
  /\ LET res == StopResult(tickerOn, stopClosed)
     IN /\ tickerOn' = res.tickerOn
        /\ stopClosed' = res.stopClosed
        /\ proc' = IF res.panic THEN "down" ELSE proc
        /\ mainPc' = IF mainPc = "started" /\ ~res.panic THEN "stopped"
                     ELSE mainPc
        /\ stops' = [n |-> stops.n + 1, panicked |-> res.panic,
                     started |-> loopPc # "none"]
  /\ UNCHANGED <<now, jobs, posts, dispatched, platformCalls, dbs,
                 restarts, faults, loopPc, tickerC, tick>>
  /\ UNCHANGED <<creds, storeDown, svc, mu, cache, opened, call, api,
                 regVars, authVars, closes, closeRes>>

StopNext ==
  \/ Clock
  \/ \E u \in Tenants : GetDB(u)
  \/ Start
  \/ StartSpawn
  \/ LoopTick
  \/ LoopBack
  \/ LoopStop
  \/ \E r \in Runners, u \in Tenants : QueryUser(r, u)
  \/ StopCall

StopSpec == Init /\ [][StopNext]_vars

\* ================================================ closing tenant stores
\* The scheduler while other goroutines open and close tenant stores.  A
\* tick works on the handles it copied from the cache: the handle of a
\* tenant is closed once CloseDB has closed the tenant's store after the
\* copy, and every statement on a closed handle fails; statements on an
\* open handle succeed here.
Live(r, u) == tick[r].handles[u] = closes[u]

\* CloseDB for a tenant with an open handle: sqlDB.Close() and the delete
CloseDB(u) ==
  /\ proc = "up"
  /\ u \in dbs
  /\ closes[u] < MaxCloses
  /\ dbs' = dbs \ {u}
  /\ closes' = [closes EXCEPT ![u] = @ + 1]
  /\ UNCHANGED <<now, jobs, posts, dispatched, platformCalls, proc,
                 restarts, faults, mainPc, loopPc, tickerOn, tickerC,
                 stopClosed, tick>>
  /\ UNCHANGED <<creds, storeDown, svc, mu, cache, opened, call, api,
                 regVars, authVars, closeRes, stops>>

QueryOpen(r, u) == Live(r, u) /\ QueryUser(r, u)

\* processUserJobs, lines 85-91, on a closed handle
QueryClosed(r, u) ==
  /\ Step(r)
  /\ tick[r].pc = "users"
  /\ u \in tick[r].todo
  /\ ~Live(r, u)
  /\ tick' = [tick EXCEPT ![r] =
       AfterUserError([@ EXCEPT !.todo = @ \ {u},
                                !.errUsers = @ \cup {u}])]
  /\ UNCHANGED <<now, jobs, posts, dispatched, platformCalls, dbs, proc,
                 restarts, faults, mainPc, loopPc, tickerOn, tickerC,
                 stopClosed>>
  /\ UNCHANGED extVars

MarkExecutingOpen(r, j) ==
  tick[r].pc = "jobs" /\ Live(r, tick[r].user) /\ MarkExecuting(r, j)

\* processJob, lines 110-115, on a closed handle
MarkExecutingClosed(r, j) ==
  /\ Step(r)
  /\ tick[r].pc = "jobs"
  /\ j \in tick[r].queue
  /\ ~Live(r, tick[r].user)
  /\ tick' = [tick EXCEPT ![r] = SaveExecutingFailed(@, j)]
  /\ UNCHANGED <<now, jobs, posts, dispatched, platformCalls, dbs, proc,
                 restarts, faults, mainPc, loopPc, tickerOn, tickerC,
                 stopClosed>>
  /\ UNCHANGED extVars

FinishOpen(r, postOk, saveOk) ==
  tick[r].pc = "finish" /\ Live(r, tick[r].user) /\ Finish(r, postOk, saveOk)

\* processPublishPostJob, lines 148-160, and markJobFailed, lines 172-174,
\* on a closed handle: db.Create fails and is logged, db.Save fails and is
\* returned
FinishClosed(r) ==
  /\ Step(r)
  /\ tick[r].pc = "finish"
  /\ ~Live(r, tick[r].user)
  /\ tick' = [tick EXCEPT ![r] =
       AfterJobError([@ EXCEPT !.errJobs = @ \cup {tick[r].job}])]
  /\ UNCHANGED <<now, jobs, posts, dispatched, platformCalls, dbs, proc,
                 restarts, faults, mainPc, loopPc, tickerOn, tickerC,
                 stopClosed>>
  /\ UNCHANGED extVars

CacheNext ==
  \/ Clock
  \/ \E u \in Tenants : GetDB(u)
  \/ \E u \in Tenants : CloseDB(u)
  \/ \E u \in Tenants, in \in JobInputs, at \in 0..MaxTime :
       InsertJob(u, in, at)
  \/ Start
  \/ StartSpawn
  \/ LoopTick
  \/ LoopBack
  \/ \E r \in Runners, u \in Tenants : QueryOpen(r, u)
  \/ \E r \in Runners, u \in Tenants : QueryClosed(r, u)
  \/ \E r \in Runners, j \in JobIds : MarkExecutingOpen(r, j)
  \/ \E r \in Runners, j \in JobIds : MarkExecutingClosed(r, j)
  \/ \E r \in Runners, ok \in BOOLEAN : Dispatch(r, ok)
  \/ \E r \in Runners : FinishOpen(r, TRUE, TRUE)
  \/ \E r \in Runners : FinishClosed(r)

CacheSpec == Init /\ [][CacheNext]_vars

\* ==================================================== provider registry
\* Register, Get and GetSupportedProviders called on one ProviderRegistry in
\* any order.  An implementation is a Provider value; the tests register
\* nil.
RegistryTags == {ProviderTypeTikTok, ProviderTypeInstagram,
                 ProviderTypeFacebook, "mock"}
Implementations == {"nil", "p1", "p2"}

RegisterKeepFirst(reg, tag, provider) ==
  IF tag \in DOMAIN reg THEN reg
  ELSE [t \in DOMAIN reg \cup {tag} |->
          IF t = tag THEN provider ELSE reg[t]]

\* Register: r.providers[providerType] = provider
RegisterProvider(reg, tag, provider) ==
  [t \in DOMAIN reg \cup {tag} |-> IF t = tag THEN provider ELSE reg[t]]

\* Get: the map lookup with its exists flag
GetProvider(reg, tag) ==
  IF tag \in DOMAIN reg
  THEN [provider |-> reg[tag], err |-> NoError]
  ELSE [provider |-> "nil", err |-> <<"provider", tag, "not found">>]

\* GetSupportedProviders: the keys appended in the order the range over the
\* map yields them, which Go leaves open: every order is a possible result
GetSupportedProviders(reg) ==
  {l \in [1..Cardinality(DOMAIN reg) -> DOMAIN reg] :
     \A i, k \in DOMAIN l : i # k => l[i] # l[k]}

regFrame == <<schedVars, svcVars, mu, cache, opened, call, api, authVars,
              closes, closeRes, stops>>

Register(tag, provider) ==
  /\ Len(regLog) < MaxRegisters
  /\ registry' = RegisterProvider(registry, tag, provider)
  /\ regLog' = Append(regLog, [tag |-> tag, provider |-> provider])
  /\ regOut' = NoLookup
  /\ UNCHANGED regFrame

Get(tag) ==
  /\ LET res == GetProvider(registry, tag)
     IN regOut' = [NoLookup EXCEPT !.op = "get", !.tag = tag,
                                   !.provider = res.provider,
                                   !.err = res.err]
  /\ UNCHANGED <<regFrame, registry, regLog>>

Enumerate(l) ==
  /\ l \in GetSupportedProviders(registry)
  /\ regOut' = [NoLookup EXCEPT !.op = "list", !.list = l]
  /\ UNCHANGED <<regFrame, registry, regLog>>

RegistryNext ==
  \/ \E tag \in RegistryTags, provider \in Implementations :
       Register(tag, provider)
  \/ \E tag \in RegistryTags : Get(tag)
  \/ \E l \in UNION {[1..n -> RegistryTags] : n \in 0..MaxRegisters} :
       Enumerate(l)

RegistrySpec == Init /\ [][RegistryNext]_vars

\* ====================================================== auth middleware
\* Requests to a handler wrapped by APIAuthMiddleware.  An Authorization
\* header is given by the parts strings.Split(header, " ") cuts it into;
\* the empty header is the one part "".
Headers ==
  {<<"">>, <<"t1">>, <<"Bearer", "">>, <<"Bearer", "t1">>,
   <<"Bearer", "t2">>, <<"Bearer", "t3">>, <<"bearer", "t1">>,
   <<"Basic", "t1">>, <<"Bearer", "t1", "x">>, <<"Bearer", "", "t1">>,
   <<"Bearer", "sha256">>}

\* hash has a UNIQUE constraint; a row may hold, by a mistake of whoever
\* wrote it, the token itself instead of its hash
TokenRows ==
  {APIToken(h, d) : h \in {Sha256("t1"), Sha256("t2"), <<"t1">>},
                    d \in {0, 1}}
TokenStores ==
  {st \in UNION {[ids -> TokenRows] : ids \in SUBSET {1, 2}} :
     \A p, q \in DOMAIN st : p # q => st[p].hash # st[q].hash}

AuthInit ==
  /\ SchedulerInit
  /\ ManagerInit
  /\ creds = ProviderRows
  /\ storeDown \in {{}, {getUserID}}
  /\ svc = NoCall
  /\ api = NoRequest
  /\ RegistryInit
  /\ closes = [u \in Tenants |-> 0]
  /\ closeRes = NoClose
  /\ stops = NoStop
  /\ tokens \in TokenStores
  /\ auth = NoAuth

FindTokenAnyRow(hash) == {id \in DOMAIN tokens : tokens[id].hash = hash}

\* Where("hash = ? AND deleted_at IS NULL", tokenHashString).First
FindToken(hash) ==
  {id \in DOMAIN tokens :
     tokens[id].hash = hash /\ tokens[id].deleted_at = 0}

\* the middleware's answer: the status (200: whatever the wrapped handler
\* answers), whether the wrapped handler ran, the row found and whether the
\* store was opened
AuthResult(header, queryOk) ==
  LET deny == [code |-> 401, invoked |-> FALSE, id |-> 0, open |-> FALSE]
      found == FindToken(Sha256(header[2]))
  IN IF header = <<"">> THEN deny
     ELSE IF Len(header) # 2 \/ header[1] # "Bearer" THEN deny
     ELSE IF header[2] = "" THEN deny
     ELSE IF ~CanOpen(getUserID) THEN deny
     ELSE IF ~queryOk \/ found = {} THEN [deny EXCEPT !.open = TRUE]
     ELSE [code |-> 200, invoked |-> TRUE,
           id |-> CHOOSE id \in found : \A k \in found : id <= k,
           open |-> TRUE]

authFrame == <<now, jobs, posts, dispatched, platformCalls, proc, restarts,
               faults, mainPc, loopPc, tickerOn, tickerC, stopClosed, tick,
               creds, storeDown, svc, mu, cache, opened, call, api, regVars,
               closes, closeRes, stops>>

\* one request through the middleware; queryOk and saveOk tell whether the
\* lookup and the write of last_used succeed
APIAuthMiddleware(header, queryOk, saveOk) ==
  /\ auth.n < MaxRequests
  /\ LET res == AuthResult(header, queryOk)
     IN /\ auth' = [n |-> auth.n + 1, header |-> header, code |-> res.code,
                    invoked |-> res.invoked, id |-> res.id, at |-> now,
                    canOpen |-> CanOpen(getUserID), queryOk |-> queryOk,
                    saveOk |-> saveOk]
        /\ tokens' = IF res.invoked /\ saveOk
                     THEN [tokens EXCEPT ![res.id].last_used = now]
                     ELSE tokens
        /\ dbs' = IF res.open THEN dbs \cup {getUserID} ELSE dbs
  /\ UNCHANGED authFrame

AuthNext ==
  \/ \E header \in Headers, queryOk \in BOOLEAN, saveOk \in BOOLEAN :
       APIAuthMiddleware(header, queryOk, saveOk)
  \/ Clock

AuthSpec == AuthInit /\ [][AuthNext]_vars

\* ===================================================== posting endpoint
\* POST requests to HandlePost arrive while the scheduler runs.  A request
\* is (provider_id, content, schedule_at); schedule_at is "", "now", a text
\* that is no RFC 3339 time ("garbage") or a time ("time", with its value).

ScheduleAts ==
  [kind : {"", "now", "garbage"}, at : {0}]
    \cup [kind : {"time"}, at : 0..(MaxTime + 1)]

BeforeNever(at, t) == FALSE

\* scheduledAt.Before(time.Now())
Before(at, t) == at < t

CreateJobOverwrite(rows, job) ==
  IF rows = <<>> THEN <<job>> ELSE [rows EXCEPT ![Len(rows)] = job]

\* db.Create(&job): a new row after the others
CreateJob(rows, job) == Append(rows, job)

\* the answer of HandlePost and the rows it writes: HTTP status, whether
\* PublishContent succeeded, the post row and the job row to create (<<>>:
\* none), and whether the tenant's store was opened
HandlePostResult(pid, content, sched, queryOk, platformOk, createOk) ==
  LET u == getUserID
      none == [code |-> 400, published |-> FALSE, post |-> <<>>,
               job |-> <<>>, open |-> TRUE]
      name == creds[u][pid].name
      cfgd == IsProviderConfigured(u, name, queryOk)
      pub == PublishContent(u, name, platformOk)
  IN IF pid = 0 \/ content = "" THEN [none EXCEPT !.open = FALSE]
     ELSE IF ~CanOpen(u) THEN [none EXCEPT !.code = 500, !.open = FALSE]
     ELSE IF pid \notin DOMAIN creds[u] THEN [none EXCEPT !.code = 404]
     ELSE IF cfgd.err # NoError THEN [none EXCEPT !.code = 500]
     ELSE IF ~cfgd.ok THEN none
     ELSE IF sched.kind \in {"", "now"}
     THEN IF pub.err # NoError THEN [none EXCEPT !.code = 500]
          ELSE IF ~createOk
          THEN [none EXCEPT !.code = 500, !.published = TRUE]
          ELSE [none EXCEPT
                  !.code = 201, !.published = TRUE,
                  !.post = <<[content |-> content, tenant |-> u,
                              provider_id |-> pid]>>]
     ELSE IF sched.kind = "garbage" THEN none
     ELSE IF Before(sched.at, now) THEN none
     ELSE IF ~createOk THEN [none EXCEPT !.code = 500]
     ELSE [none EXCEPT
             !.code = 201,
             !.job = <<[tenant |-> u, job_type |-> "publish_post",
                        payload |-> content, provider_id |-> pid,
                        scheduled_at |-> sched.at, executed_at |-> 0,
                        status |-> JobStatusPending,
                        error_msg |-> NoError]>>]

\* PostHandler.HandlePost; the HTTP server listens once Start has returned
HandlePost(pid, content, sched, queryOk, platformOk, createOk) ==
  /\ proc = "up"
  /\ mainPc \in {"started", "stopped"}
  /\ api.n < MaxRequests
  /\ LET res == HandlePostResult(pid, content, sched, queryOk, platformOk,
                                 createOk)
     IN /\ api' = [n |-> api.n + 1, schedule_at |-> sched.kind,
                   at |-> sched.at, code |-> res.code,
                   published |-> res.published]
        /\ dbs' = IF res.open THEN dbs \cup {getUserID} ELSE dbs
        /\ posts' = posts \o res.post
        /\ jobs' = IF res.job = <<>> THEN jobs
                   ELSE CreateJob(jobs, res.job[1])
        /\ dispatched' = dispatched \o [i \in 1..Len(res.job) |-> 0]
        /\ platformCalls' = platformCalls \o [i \in 1..Len(res.job) |-> 0]
  /\ UNCHANGED <<now, proc, restarts, faults, mainPc, loopPc, tickerOn,
                 tickerC, stopClosed, tick, svcVars, mu, cache, opened, call,
                 moreVars>>

ApiNext ==
  \/ Clock
  \/ \E pid \in {0} \cup ProviderIds, content \in {"", "text"},
        sched \in ScheduleAts, queryOk \in BOOLEAN, platformOk \in BOOLEAN,
        createOk \in BOOLEAN :
       HandlePost(pid, content, sched, queryOk, platformOk, createOk)
  \/ Crash
  \/ MainExit
  \/ Restart
  \/ Start
  \/ StartSpawn
  \/ LoopTick
  \/ LoopBack
  \/ LoopStop
  \/ Stop
  \/ \E r \in Runners, u \in Tenants : QueryUser(r, u)
  \/ \E r \in Runners, u \in Tenants : QueryUserFails(r, u)
  \/ \E r \in Runners, j \in JobIds : MarkExecuting(r, j)
  \/ \E r \in Runners, j \in JobIds : MarkExecutingFails(r, j)
  \/ \E r \in Runners, ok \in BOOLEAN : Dispatch(r, ok)
  \/ \E r \in Runners, postOk \in BOOLEAN, saveOk \in BOOLEAN :
       Finish(r, postOk, saveOk)

ApiSpec == Init /\ [][ApiNext]_vars

\* ================================================================ claims
Final == {JobStatusCompleted, JobStatusFailed}
Done(r) == tick[r].pc = "done"
\* the job is between its Executing write and its final write
InFlight(j) ==
  \E r \in Runners : tick[r].pc \in {"dispatch", "finish"} /\ tick[r].job = j
\* the tick of r queried the store of j's tenant
Queried(r, j) == jobs[j].tenant \in tick[r].snap \ tick[r].errUsers
HasActiveCredential(u, pid) ==
  pid \in DOMAIN creds[u] /\ creds[u][pid].is_active
ProviderNotFound(err) ==
  Contains(err, "provider not found") \/ Contains(err, "Provider name not found")

\* C1 as stated: at the end of a poll tick every job that was Pending and
\* due when the tick started is Completed or Failed.
C1_DueBecomesFinal ==
  \A r \in Runners : Done(r) =>
    \A j \in tick[r].startDue : jobs[j].status \in Final

\* C1 amended: at the end of a poll tick every job that was Pending and due
\* when the tick started, whose tenant store was open in the tick's snapshot
\* and for which neither the tenant's query nor one of the job's status
\* writes failed, is Completed or Failed.
C1_DueBecomesFinalUnlessStoreFails ==
  \A r \in Runners : Done(r) =>
    \A j \in tick[r].startDue :
      (Queried(r, j) /\ j \notin tick[r].errJobs) => jobs[j].status \in Final

C1_Witness ==
  \E r \in Runners : /\ Done(r)
                     /\ \E j, k \in tick[r].startDue :
                          /\ jobs[j].status = JobStatusCompleted
                          /\ jobs[k].status = JobStatusFailed

\* C2: a job whose scheduled_at is later than the clock is Pending and no
\* publish has been dispatched or sent to the platform for it.
C2_NeverEarly ==
  \A j \in JobIds : jobs[j].scheduled_at > now =>
    /\ jobs[j].status = JobStatusPending
    /\ dispatched[j] = 0
    /\ platformCalls[j] = 0

\* a finished tick queried the tenant of a future job and processed another
\* job of that tenant
C2_Witness ==
  \E r \in Runners : /\ Done(r)
                     /\ \E j, k \in JobIds :
                          /\ jobs[j].scheduled_at > now
                          /\ Queried(r, j)
                          /\ jobs[k].tenant = jobs[j].tenant
                          /\ k \in tick[r].attempted
                          /\ jobs[k].status \in Final

StatusMove(a, b) ==
  \/ a = b
  \/ a = JobStatusPending /\ b = JobStatusExecuting
  \/ a = JobStatusExecuting /\ b \in Final

\* C3: in every step every job's status stays or moves Pending -> Executing
\* or Executing -> Completed/Failed, and no publish is dispatched for a job
\* that is Completed or Failed.
C3_Monotonic ==
  [][\A j \in JobIds :
       /\ StatusMove(jobs[j].status, jobs'[j].status)
       /\ jobs[j].status \in Final =>
            /\ dispatched'[j] = dispatched[j]
            /\ platformCalls'[j] = platformCalls[j]]_vars

\* a finished tick queried the tenant of a due job that an earlier tick had
\* brought to Completed or Failed, and left it alone
C3_Witness ==
  \E r \in Runners : /\ Done(r)
                     /\ \E j \in JobIds :
                          /\ jobs[j].status \in Final
                          /\ jobs[j].scheduled_at <= now
                          /\ Queried(r, j)
                          /\ j \notin tick[r].attempted

\* C4: at the end of a tick, whatever errors it met, processJob has been
\* called for every job that was due at its start in a tenant store the
\* tick could query.
C4_ErrorsIsolated ==
  \A r \in Runners : Done(r) =>
    \A j \in tick[r].startDue : Queried(r, j) => j \in tick[r].attempted

\* a finished tick in which one job met a store error and another job of the
\* same tenant reached its final status
C4_Witness ==
  \E r \in Runners : /\ Done(r)
                     /\ \E j \in tick[r].errJobs, k \in tick[r].attempted :
                          /\ k # j
                          /\ jobs[k].tenant = jobs[j].tenant
                          /\ k \notin tick[r].errJobs
                          /\ jobs[k].status \in Final

\* C5 as stated: a job of a type other than publish_post that a tick
\* processed is Failed at the end of the tick, with the unknown-type text,
\* and nothing was published for it.
C5_UnknownTypeFails ==
  \A r \in Runners : Done(r) =>
    \A j \in tick[r].attempted : jobs[j].job_type # "publish_post" =>
      /\ jobs[j].status = JobStatusFailed
      /\ jobs[j].error_msg = <<"Unknown job type", jobs[j].job_type>>
      /\ dispatched[j] = 0

\* C5 amended: no publish is ever dispatched for a job of a type other than
\* publish_post; at the end of a tick that processed it the job is Failed
\* with the text "Unknown job type: <type>" unless one of its status writes
\* failed; and every publish_post job of the same tenant that was due at the
\* start of that tick has been processed too, to a final status unless a
\* write failed.
C5_UnknownTypeFailsUnlessStoreFails ==
  /\ \A j \in JobIds : jobs[j].job_type # "publish_post" =>
       dispatched[j] = 0 /\ platformCalls[j] = 0
  /\ \A r \in Runners : Done(r) =>
       \A j \in tick[r].attempted : jobs[j].job_type # "publish_post" =>
         /\ j \notin tick[r].errJobs =>
              /\ jobs[j].status = JobStatusFailed
              /\ jobs[j].error_msg = <<"Unknown job type", jobs[j].job_type>>
         /\ \A k \in tick[r].startDue :
              (jobs[k].tenant = jobs[j].tenant
                 /\ jobs[k].job_type = "publish_post") =>
                /\ k \in tick[r].attempted
                /\ k \notin tick[r].errJobs => jobs[k].status \in Final

C5_Witness ==
  \E r \in Runners : /\ Done(r)
                     /\ \E j, k \in tick[r].attempted :
                          /\ jobs[j].job_type # "publish_post"
                          /\ jobs[j].status = JobStatusFailed
                          /\ jobs[k].tenant = jobs[j].tenant
                          /\ jobs[k].job_type = "publish_post"
                          /\ jobs[k].status = JobStatusCompleted

\* C6 as stated: a publish_post job a tick processed, whose provider
\* reference has no active credential in the tenant's store, is Failed at the
\* end of the tick with a provider-not-found text, and the platform was not
\* called.
C6_NoCredentialFails ==
  \A r \in Runners : Done(r) =>
    \A j \in tick[r].attempted :
      (jobs[j].job_type = "publish_post"
         /\ ~HasActiveCredential(jobs[j].tenant, jobs[j].provider_id)) =>
        /\ jobs[j].status = JobStatusFailed
        /\ ProviderNotFound(jobs[j].error_msg)
        /\ platformCalls[j] = 0

\* C6 amended: the platform is never called for a publish_post job whose
\* provider reference has no active credential; at the end of a tick that
\* processed it the job is Failed with a provider-not-found text unless one
\* of its status writes failed.
C6_NoCredentialFailsUnlessStoreFails ==
  /\ \A j \in JobIds :
       (jobs[j].job_type = "publish_post"
          /\ ~HasActiveCredential(jobs[j].tenant, jobs[j].provider_id)) =>
         platformCalls[j] = 0
  /\ \A r \in Runners : Done(r) =>
       \A j \in tick[r].attempted :
         (jobs[j].job_type = "publish_post"
            /\ ~HasActiveCredential(jobs[j].tenant, jobs[j].provider_id)
            /\ j \notin tick[r].errJobs) =>
           /\ jobs[j].status = JobStatusFailed
           /\ ProviderNotFound(jobs[j].error_msg)

\* a job whose provider row exists but is inactive was dispatched and Failed
C6_Witness ==
  \E j \in JobIds :
    /\ jobs[j].job_type = "publish_post"
    /\ jobs[j].provider_id \in DOMAIN creds[jobs[j].tenant]
    /\ ~HasActiveCredential(jobs[j].tenant, jobs[j].provider_id)
    /\ dispatched[j] = 1
    /\ jobs[j].status = JobStatusFailed
    /\ Contains(jobs[j].error_msg, "provider not found")

\* C7: a job for which a publish has been dispatched or sent to the platform
\* is not Pending in the store.
C7_ExecutingBeforePublish ==
  \A j \in JobIds :
    (dispatched[j] > 0 \/ platformCalls[j] > 0) =>
      jobs[j].status # JobStatusPending

\* the publish of a job has just returned, its stored status is Executing
C7_Witness ==
  \E r \in Runners : /\ tick[r].pc = "finish"
                     /\ platformCalls[tick[r].job] = 1
                     /\ jobs[tick[r].job].status = JobStatusExecuting

C9_NoOverlap ==
  /\ Cardinality({r \in Runners : Active(r)}) <= 1
  /\ loopPc # "none" => (mainPc \in {"started", "stopped"} /\ ~Active("main"))
  /\ (tick["loop"].pc # "idle") => loopPc = "tick"

\* the loop's tick is publishing a job
C9_Witness ==
  /\ tick["loop"].pc = "dispatch"
  /\ mainPc = "started"

C11_OpenedOnceSameHandle ==
  /\ \A u \in Tenants : opened[u] <= 1
  /\ \A g \in Goroutines : call[g].pc = "returned" =>
       /\ call[g].user \in DOMAIN cache
       /\ call[g].ret = cache[call[g].user]

\* C11 amended: for any interleaving of concurrent GetDB calls the store of
\* a tenant is opened successfully at most once, the cache holds that one
\* handle, and every GetDB call for the tenant that has returned has either
\* returned that handle or, its own open having failed, an error and no
\* handle; after a failed open nothing is cached and a later call opens
\* the store again.
C11_OneHandleUnlessOpenFails ==
  /\ \A u \in Tenants :
       /\ opened[u] <= 1
       /\ u \in DOMAIN cache <=> opened[u] = 1
       /\ u \in DOMAIN cache => cache[u] = 1
  /\ \A g \in Goroutines : call[g].pc = "returned" =>
       IF call[g].err
       THEN call[g].ret = 0
       ELSE /\ call[g].user \in DOMAIN cache
            /\ call[g].ret = cache[call[g].user]

\* two first-time calls for one tenant both went past the read-locked
\* lookup to createOrOpenDB, and both have returned the same handle
C11_Witness ==
  \E g, h \in Goroutines :
    /\ g # h
    /\ call[g].pc = "returned" /\ call[h].pc = "returned"
    /\ call[g].user = call[h].user
    /\ call[g].slow /\ call[h].slow
    /\ ~call[g].err /\ ~call[h].err
    /\ call[g].ret = call[h].ret

\* ---------------------------------------------------------------- C12
Supported ==
  {ProviderTypeTikTok, ProviderTypeInstagram, ProviderTypeFacebook}
\* the tenant of the last call has an active credential of the call's name
Configured == ActiveIds(svc.tenant, svc.name) # {}
\* the store of the tenant of the last call could be opened
Opened == CanOpen(svc.tenant)

\* C12 as stated: IsProviderConfigured returns false and no error for every
\* tenant and name without an active credential of that name, and true
\* exactly when there is one.
C12_FalseNotError ==
  svc.op = "configured" =>
    /\ svc.ok <=> Configured
    /\ ~Configured => svc.err = NoError

\* C12 amended: IsProviderConfigured returns true only when the tenant has
\* an active credential of that name.  When the tenant's store opens and
\* answers the query it returns true exactly then, and false with no error
\* otherwise; when the query fails it returns false with no error whatever
\* the store holds; when the store cannot be opened it returns false with
\* the error "failed to get database".
C12_FalseNotErrorUnlessStoreFails ==
  svc.op = "configured" =>
    /\ svc.ok => Configured /\ svc.err = NoError
    /\ (Opened /\ svc.storeOk) =>
         /\ svc.ok <=> Configured
         /\ svc.err = NoError
    /\ (Opened /\ ~svc.storeOk) => ~svc.ok /\ svc.err = NoError
    /\ ~Opened => ~svc.ok /\ Contains(svc.err, "failed to get database")

\* the name is that of a credential that is stored but inactive, and the
\* answer is false with no error
C12_Witness ==
  /\ svc.op = "configured"
  /\ \E p \in DOMAIN creds[svc.tenant] :
       creds[svc.tenant][p].name = svc.name /\ ~creds[svc.tenant][p].is_active
  /\ Opened /\ svc.storeOk
  /\ ~svc.ok
  /\ svc.err = NoError

\* ---------------------------------------------------------------- C13
\* C13: CreateProvider fails with "unsupported provider type" for every type
\* tag other than tiktok, instagram and facebook, returns a provider for
\* each of these three, and sends no request in either case.
C13_UnsupportedType ==
  svc.op = "create" =>
    /\ svc.name \notin Supported =>
         svc.err = <<"unsupported provider type", svc.name>>
    /\ svc.name \in Supported => svc.err = NoError
    /\ ~svc.sent

\* an unknown tag was refused and nothing was sent
C13_Witness ==
  /\ svc.op = "create"
  /\ svc.name = "twitter"
  /\ Contains(svc.err, "unsupported provider type")
  /\ ~svc.sent

\* ---------------------------------------------------------------- C14
\* C14 as stated: PublishContent for a tenant and name without an active
\* credential fails with a provider-not-found error and Provider.Publish is
\* not called.
C14_NotConfigured ==
  (svc.op = "publish" /\ ~Configured) =>
    /\ Contains(svc.err, "provider not found")
    /\ ~svc.called

\* C14 amended: PublishContent for a tenant and name without an active
\* credential (none of that name, or an inactive one) fails and
\* Provider.Publish is not called; the error is "provider not found" when
\* the tenant's store could be opened and "failed to get database" when it
\* could not.
C14_NotConfiguredUnlessStoreFails ==
  (svc.op = "publish" /\ ~Configured) =>
    /\ svc.err # NoError
    /\ ~svc.called
    /\ Opened => Contains(svc.err, "provider not found")
    /\ ~Opened => Contains(svc.err, "failed to get database")

\* the name is a supported type tag and that of a stored, inactive
\* credential; the publish failed before the provider was made
C14_Witness ==
  /\ svc.op = "publish"
  /\ svc.name \in Supported
  /\ \E p \in DOMAIN creds[svc.tenant] :
       creds[svc.tenant][p].name = svc.name /\ ~creds[svc.tenant][p].is_active
  /\ Contains(svc.err, "provider not found")
  /\ ~svc.called

\* ---------------------------------------------------------------- C15
\* C15: PublishContent for an active credential with any instance name,
\* whose type is tiktok, instagram or facebook and whose store can be
\* opened, makes the provider of that type and calls its Publish.
C15_NamedInstancePublishes ==
  (/\ svc.op = "publish"
   /\ Opened
   /\ \E p \in ActiveIds(svc.tenant, svc.name) :
        creds[svc.tenant][p].type \in Supported) => svc.called

\* ---------------------------------------------------------------- C16
\* the active credential of the last call's tenant and name, as
\* getProviderConfig reads it now
StoredNow ==
  LoadConfig(creds[svc.tenant][CHOOSE p \in ActiveIds(svc.tenant, svc.name) :
                                 TRUE])

\* C16: after RefreshProviderToken has returned success, reading the stored
\* credential of the same tenant and name gives the access token and the
\* expiry the refresh produced: those of the platform's token document,
\* the expiry being the time of the refresh plus expires_in.
C16_RefreshRoundTrip ==
  (svc.op = "refresh" /\ svc.err = NoError) =>
    /\ Opened /\ Configured
    /\ StoredNow.AccessToken = svc.after.AccessToken
    /\ StoredNow.ExpiresAt = svc.after.ExpiresAt
    /\ svc.resp.access_token # "" =>
         /\ StoredNow.AccessToken = svc.resp.access_token
         /\ StoredNow.ExpiresAt = now + svc.resp.expires_in

\* a refresh that got a new token succeeded and the store holds it
C16_Witness ==
  /\ svc.op = "refresh"
  /\ svc.err = NoError
  /\ svc.resp.access_token = "a1"
  /\ svc.before.AccessToken = "a0"
  /\ StoredNow.AccessToken = "a1"
  /\ StoredNow.ExpiresAt # svc.before.ExpiresAt

\* ---------------------------------------------------------------- C17
\* C17: RefreshToken of each of the three providers, bound to a config
\* without a refresh token, fails with "no refresh token available", sends
\* no request and leaves the config as it was.
C17_NoRefreshToken ==
  (svc.op = "refreshToken" /\ svc.before.RefreshToken = "") =>
    /\ svc.err = <<"no refresh token available">>
    /\ ~svc.sent
    /\ svc.after = svc.before

\* the platform would have answered with a new token
C17_Witness ==
  /\ svc.op = "refreshToken"
  /\ svc.before.RefreshToken = ""
  /\ svc.resp.kind = "token" /\ svc.resp.access_token = "a1"
  /\ svc.err = <<"no refresh token available">>
  /\ svc.after = svc.before

\* ---------------------------------------------------------------- C18
\* C18 as stated: whenever RefreshToken of one of the three providers
\* returns success, the bound config's access token, token type and expiry
\* are those of the platform's response.
C18_AllReplaced ==
  (svc.op = "refreshToken" /\ svc.err = NoError) =>
    /\ svc.after.AccessToken = svc.resp.access_token
    /\ svc.after.TokenType = svc.resp.token_type
    /\ svc.after.ExpiresAt = now + svc.resp.expires_in

\* C18 amended: whenever RefreshToken returns success and the platform's
\* token document carries an access token, the bound config's access token
\* is that token and its expiry is the time of the refresh plus expires_in;
\* the Instagram and Facebook providers also replace the token type and
\* keep the refresh token, the TikTok provider replaces the refresh token
\* and keeps the token type.  When the document carries no access token
\* RefreshToken returns success too and the config is as it was.
C18_ReplacedPerVariant ==
  (svc.op = "refreshToken" /\ svc.err = NoError) =>
    IF svc.resp.access_token = ""
    THEN svc.after = svc.before
    ELSE /\ svc.after.AccessToken = svc.resp.access_token
         /\ svc.after.ExpiresAt = now + svc.resp.expires_in
         /\ IF svc.name = ProviderTypeTikTok
            THEN /\ svc.after.RefreshToken = svc.resp.refresh_token
                 /\ svc.after.TokenType = svc.before.TokenType
            ELSE /\ svc.after.TokenType = svc.resp.token_type
                 /\ svc.after.RefreshToken = svc.before.RefreshToken

\* the Instagram provider has replaced all three
C18_Witness ==
  /\ svc.op = "refreshToken"
  /\ svc.name = ProviderTypeInstagram
  /\ svc.err = NoError
  /\ svc.after.AccessToken = "a1" /\ svc.before.AccessToken = "a0"
  /\ svc.after.TokenType = "Bearer" /\ svc.before.TokenType = "bearer"
  /\ svc.after.ExpiresAt = now + 1

\* ---------------------------------------------------------------- C19
\* the step is a request to the posting endpoint
Requested == api'.n # api.n
JobCreated == Len(jobs') = Len(jobs) + 1

C20_JobsKept ==
  [][/\ Len(jobs') >= Len(jobs)
     /\ \A j \in JobIds :
          /\ jobs'[j].job_type = jobs[j].job_type
          /\ jobs'[j].payload = jobs[j].payload
          /\ jobs'[j].tenant = jobs[j].tenant
          /\ jobs'[j].provider_id = jobs[j].provider_id
          /\ jobs'[j].scheduled_at = jobs[j].scheduled_at
          /\ Requested => jobs'[j] = jobs[j]]_vars

\* the scheduler has brought the first job to its final status and a later
\* request has created a second one
C20_Witness ==
  /\ Len(jobs) = 2
  /\ jobs[1].status \in Final
  /\ jobs[2].status = JobStatusPending
  /\ api.code = 201 /\ api.schedule_at = "time"

\* the Register calls so far that named tag
Registered(tag) == {i \in 1..Len(regLog) : regLog[i].tag = tag}
Latest(idx) == CHOOSE i \in idx : \A k \in idx : k <= i

\* C21: a new registry is empty; after any Register calls Get(tag) returns
\* the implementation of the last Register call that named tag and fails
\* when no call named it; GetSupportedProviders lists every tag a Register
\* call has named, each once, and nothing else.
C21_RegistryLastWins ==
  /\ regLog = <<>> => DOMAIN registry = {}
  /\ regOut.op = "get" =>
       IF Registered(regOut.tag) = {}
       THEN regOut.err # NoError
       ELSE /\ regOut.err = NoError
            /\ regOut.provider = regLog[Latest(Registered(regOut.tag))].provider
  /\ regOut.op = "list" =>
       /\ {regOut.list[i] : i \in DOMAIN regOut.list}
            = {regLog[i].tag : i \in DOMAIN regLog}
       /\ \A i, k \in DOMAIN regOut.list :
            i # k => regOut.list[i] # regOut.list[k]

\* a tag was registered twice with different implementations, and Get has
\* returned the second one
C21_Witness ==
  /\ regOut.op = "get"
  /\ \E i, k \in Registered(regOut.tag) :
       /\ i < k
       /\ regLog[i].provider # regLog[k].provider
       /\ regOut.provider = regLog[k].provider
       /\ k = Latest(Registered(regOut.tag))

\* the request carries "Authorization: Bearer <token>" and the hash of the
\* token is the hash of a stored row that is not deleted
ValidToken(header) ==
  /\ Len(header) = 2
  /\ header[1] = "Bearer"
  /\ \E id \in DOMAIN tokens :
       tokens[id].hash = Sha256(header[2]) /\ tokens[id].deleted_at = 0

\* C22 as stated: the wrapped handler has run only for a request with a
\* valid token, and then the token's last_used is the time of the request;
\* every other request was answered 401 without running the handler.
C22_OnlyValidTokenPasses ==
  auth.n > 0 =>
    /\ auth.invoked =>
         /\ ValidToken(auth.header)
         /\ tokens[auth.id].last_used = auth.at
    /\ ~ValidToken(auth.header) => auth.code = 401 /\ ~auth.invoked

\* C22 amended: the wrapped handler runs exactly for the requests with a
\* valid token for which the store could be opened and the lookup
\* succeeded; for them last_used of the token's row is set to the time of
\* the request unless that write fails, which does not stop the request;
\* every request for which the handler did not run was answered 401.
C22_OnlyValidTokenPassesSaveMayFail ==
  auth.n > 0 =>
    /\ auth.invoked <=>
         (ValidToken(auth.header) /\ auth.canOpen /\ auth.queryOk)
    /\ auth.invoked =>
         /\ tokens[auth.id].hash = Sha256(auth.header[2])
         /\ tokens[auth.id].deleted_at = 0
         /\ auth.saveOk => tokens[auth.id].last_used = auth.at
    /\ ~auth.invoked => auth.code = 401

\* the second request with a token passed, later than the first, and its
\* time is the row's last_used
C22_Witness ==
  /\ auth.n = 2
  /\ auth.invoked
  /\ auth.at > 1
  /\ tokens[auth.id].last_used = auth.at

\* the post row that records the publication of job j
PostOf(j) ==
  [content |-> jobs[j].payload, tenant |-> jobs[j].tenant,
   provider_id |-> jobs[j].provider_id]

\* C23 as stated: for every Completed publish_post job the platform was
\* called and the posts table holds a row with the job's payload, tenant
\* and provider reference.
C23_CompletedHasPost ==
  \A j \in JobIds :
    (jobs[j].job_type = "publish_post"
       /\ jobs[j].status = JobStatusCompleted) =>
      /\ platformCalls[j] = 1
      /\ \E i \in DOMAIN posts : posts[i] = PostOf(j)

\* C23 amended: a job becomes Completed only in the step that follows a
\* PublishContent call for it that returned no error; the job is a
\* publish_post job whose platform request was sent once; that step adds
\* the job's post row (payload, tenant, provider reference) to the posts
\* table unless the creation of the row fails, and then adds nothing.
C23_CompletedAfterPublish ==
  [][\A j \in JobIds :
       (jobs[j].status # JobStatusCompleted
          /\ jobs'[j].status = JobStatusCompleted) =>
         /\ jobs[j].job_type = "publish_post"
         /\ jobs[j].status = JobStatusExecuting
         /\ platformCalls[j] = 1
         /\ \E r \in Runners : /\ tick[r].pc = "finish"
                                /\ tick[r].job = j
                                /\ tick[r].outcome = NoError
         /\ IF faults' = faults
            THEN posts' = Append(posts, PostOf(j))
            ELSE posts' = posts]_vars

\* a Completed job and its post row
C23_Witness ==
  \E j \in JobIds :
    /\ jobs[j].status = JobStatusCompleted
    /\ platformCalls[j] = 1
    /\ \E i \in DOMAIN posts : posts[i] = PostOf(j)

\* the tick of r has met an error for job j and the job is Pending: the
\* write of Executing failed (a failed final write leaves it Executing)
ExecutingNotSaved(r, j) ==
  j \in tick[r].errJobs /\ jobs[j].status = JobStatusPending

\* C24: the step in which the write of a job's Executing status fails
\* changes no job row and publishes nothing, and the tick goes on with the
\* jobs and tenants it has left; at the end of the tick nothing was
\* published for that job, and every other job that was due at the start of
\* the tick in a store the tick could query has been processed, to a final
\* status unless that job met a store error of its own.
C24_ExecutingSaveFailureSkipsJob ==
  [][\A r \in Runners :
       /\ (/\ tick[r].pc = "jobs"
           /\ tick[r].errJobs \subseteq tick'[r].errJobs
           /\ tick[r].errJobs # tick'[r].errJobs) =>
            LET j == CHOOSE j \in tick'[r].errJobs \ tick[r].errJobs : TRUE
            IN /\ jobs[j].status = JobStatusPending
               /\ jobs' = jobs
               /\ posts' = posts
               /\ dispatched' = dispatched
               /\ platformCalls' = platformCalls
               /\ tick'[r].queue = tick[r].queue \ {j}
               /\ tick'[r].todo = tick[r].todo
               /\ tick'[r].pc \in {"jobs", "users", "done"}
       /\ Done(r)' =>
            \A j \in JobIds : ExecutingNotSaved(r, j)' =>
              /\ dispatched'[j] = 0
              /\ platformCalls'[j] = 0
              /\ \A k \in tick'[r].startDue : Queried(r, k)' =>
                   /\ k \in tick'[r].attempted
                   /\ k \notin tick'[r].errJobs =>
                        jobs'[k].status \in Final]_vars

\* a finished tick could not save Executing for one job, left it Pending
\* and then brought another job of the same tenant to its final status
C24_Witness ==
  \E r \in Runners :
    /\ Done(r)
    /\ \E j, k \in tick[r].attempted :
         /\ ExecutingNotSaved(r, j)
         /\ dispatched[j] = 0
         /\ k # j
         /\ jobs[k].tenant = jobs[j].tenant
         /\ jobs[k].status \in Final
         /\ dispatched[k] = 1

\* C25: a job that is Executing in the store while no tick is executing it
\* (a crash or a failed final write left it so) is changed by no step: its
\* row and its publish counters stay, and no tick puts it into its queue or
\* takes it; and no job's publish is dispatched or sent to the platform
\* more than once.
C25_ExecutingStaysStuck ==
  [][\A j \in JobIds :
       /\ (jobs[j].status = JobStatusExecuting /\ ~InFlight(j)) =>
            /\ jobs'[j] = jobs[j]
            /\ dispatched'[j] = dispatched[j]
            /\ platformCalls'[j] = platformCalls[j]
            /\ \A r \in Runners :
                 j \notin tick'[r].queue /\ tick'[r].job # j
       /\ dispatched'[j] <= 1
       /\ platformCalls'[j] <= 1]_vars

\* the final write of a published job failed; a later tick of the same
\* process queried the job's tenant and left the job Executing
C25_Witness ==
  \E r \in Runners :
    /\ Done(r)
    /\ restarts = 0
    /\ \E j \in JobIds :
         /\ jobs[j].status = JobStatusExecuting
         /\ platformCalls[j] = 1
         /\ Queried(r, j)
         /\ j \notin tick[r].attempted
         /\ j \notin tick[r].errJobs

\* C26: a tick's snapshot is the set of tenants with a handle in the cache
\* at the step that begins the tick; until the tick returns the snapshot
\* stays and the tenants still to visit only shrink, whatever is opened or
\* closed meanwhile; a step changes a job's row or publish counters only
\* for a job of the snapshot tenant the tick is visiting; and when the tick
\* ends it has visited every tenant of the snapshot, it has processed the
\* due jobs of those it could query, and every due job of a tenant outside
\* the snapshot is Pending, unprocessed and unpublished.
C26_TickVisitsSnapshot ==
  [][/\ \A r \in Runners :
          /\ (tick[r].pc = "idle" /\ tick'[r].pc # "idle") =>
               tick'[r].snap = dbs /\ tick'[r].todo = dbs
          /\ (tick[r].pc # "idle" /\ tick'[r].pc # "idle") =>
               /\ tick'[r].snap = tick[r].snap
               /\ tick'[r].todo \subseteq tick[r].todo
               /\ tick'[r].user \in tick[r].snap \cup {"none"}
          /\ Done(r)' =>
               /\ tick'[r].todo = {}
               /\ \A j \in tick'[r].startDue :
                    IF jobs'[j].tenant \in tick'[r].snap
                    THEN jobs'[j].tenant \notin tick'[r].errUsers =>
                           j \in tick'[r].attempted
                    ELSE /\ j \notin tick'[r].attempted
                         /\ jobs'[j].status = JobStatusPending
                         /\ dispatched'[j] = 0
     /\ \A j \in JobIds :
          (\/ jobs'[j] # jobs[j]
           \/ dispatched'[j] # dispatched[j]
           \/ platformCalls'[j] # platformCalls[j]) =>
            \E r \in Runners : /\ tick[r].user = jobs[j].tenant
                               /\ jobs[j].tenant \in tick[r].snap]_vars

\* a finished tick has left alone the due job of a tenant whose store was
\* closed before the tick and opened again during it, while a store of its
\* snapshot was closed under it
C26_Witness ==
  \E r \in Runners :
    /\ Done(r)
    /\ \E j \in tick[r].startDue :
         /\ jobs[j].tenant \notin tick[r].snap
         /\ jobs[j].tenant \in dbs
         /\ jobs[j].status = JobStatusPending
    /\ \E u \in tick[r].snap : ~Live(r, u)

\* C27: a Failed job has an error text and no executed_at, a Completed job
\* has executed_at and no error text, a Pending or Executing job has
\* neither.
C27_FieldsMatchStatus ==
  \A j \in JobIds :
    /\ jobs[j].status = JobStatusFailed =>
         jobs[j].error_msg # NoError /\ jobs[j].executed_at = 0
    /\ jobs[j].status = JobStatusCompleted =>
         jobs[j].executed_at # 0 /\ jobs[j].error_msg = NoError
    /\ jobs[j].status \in {JobStatusPending, JobStatusExecuting} =>
         jobs[j].error_msg = NoError /\ jobs[j].executed_at = 0

\* one job has Failed with its error text and another was Completed at the
\* time of the clock
C27_Witness ==
  \E j, k \in JobIds :
    /\ jobs[j].status = JobStatusFailed
    /\ Contains(jobs[j].error_msg, "Failed to publish content")
    /\ jobs[k].status = JobStatusCompleted
    /\ jobs[k].executed_at = now

\* the step is a call of CloseDB or CloseAll
CloseStep == closeRes'.n # closeRes.n
\* every handle of the cache is still there, unchanged
HandlesKept(tenants) ==
  \A v \in tenants : v \in DOMAIN cache' /\ cache'[v] = cache[v]
\* goroutine g gets a handle from GetDB in this step
GetsHandle(g) ==
  call[g].pc # "returned" /\ call'[g].pc = "returned" /\ ~call'[g].err

\* C28 as stated: no step other than a CloseDB or CloseAll call removes or
\* replaces a cached handle; a GetDB that returns a handle returns the
\* cached one, the one that was cached before if there was one; a
\* CloseDB(t) call succeeds, leaves no handle of t, keeps every other
\* handle and adds none.
C28_CloseDBRemovesHandle ==
  [][/\ ~CloseStep => HandlesKept(DOMAIN cache)
     /\ \A g \in Goroutines : GetsHandle(g) =>
          /\ call'[g].user \in DOMAIN cache'
          /\ call'[g].ret = cache'[call'[g].user]
          /\ call'[g].user \in DOMAIN cache =>
               call'[g].ret = cache[call'[g].user]
     /\ (CloseStep /\ closeRes'.op = "CloseDB") =>
          /\ ~closeRes'.err
          /\ closeRes'.user \notin DOMAIN cache'
          /\ HandlesKept(DOMAIN cache \ {closeRes'.user})
          /\ DOMAIN cache' \subseteq DOMAIN cache]_vars

\* C28 amended: as stated, except that a CloseDB(t) call whose close of
\* the handle fails returns the error and leaves the cache as it was, t's
\* handle included.
C28_CloseDBRemovesHandleUnlessCloseFails ==
  [][/\ ~CloseStep => HandlesKept(DOMAIN cache)
     /\ \A g \in Goroutines : GetsHandle(g) =>
          /\ call'[g].user \in DOMAIN cache'
          /\ call'[g].ret = cache'[call'[g].user]
          /\ call'[g].user \in DOMAIN cache =>
               call'[g].ret = cache[call'[g].user]
     /\ (CloseStep /\ closeRes'.op = "CloseDB") =>
          IF closeRes'.err
          THEN closeRes'.user \in DOMAIN cache /\ cache' = cache
          ELSE /\ closeRes'.user \notin DOMAIN cache'
               /\ HandlesKept(DOMAIN cache \ {closeRes'.user})
               /\ DOMAIN cache' \subseteq DOMAIN cache]_vars

\* CloseDB has closed the handle of one tenant while another tenant's
\* handle stayed cached; a later GetDB has opened the closed store again
C28_Witness ==
  /\ closeRes.op = "CloseDB"
  /\ ~closeRes.err
  /\ closeRes.user \in DOMAIN cache
  /\ cache[closeRes.user] = 2
  /\ \E v \in DOMAIN cache : v # closeRes.user /\ cache[v] = 1
  /\ \E g \in Goroutines :
       /\ call[g].pc = "returned"
       /\ call[g].user = closeRes.user
       /\ call[g].ret = 2

\* the tick of r has published, or failed to publish, job j of tenant u in
\* this step
Dispatches(r) == tick[r].pc = "dispatch" /\ tick'[r].pc = "finish"

\* C29: a step changes the row or the publish counters of a job only while
\* a tick is visiting the job's own tenant; a post row is added only for
\* the tenant being visited and for one of its jobs; no step changes a
\* credential row; and the publish of a job is decided by the credential
\* rows of the job's own tenant alone: the platform is called only when
\* that store holds an active row under the job's provider reference, and
\* the job fails with the name-not-found text when that store holds no row
\* under it, also when another tenant's store holds one.
C29_TenantIsolation ==
  [][/\ \A j \in JobIds :
          (\/ jobs'[j] # jobs[j]
           \/ dispatched'[j] # dispatched[j]
           \/ platformCalls'[j] # platformCalls[j]) =>
            \E r \in Runners : /\ tick[r].user = jobs[j].tenant
                               /\ tick'[r].job \in {0, j}
                               /\ \A k \in JobIds \ {j} :
                                    /\ jobs'[k] = jobs[k]
                                    /\ dispatched'[k] = dispatched[k]
                                    /\ platformCalls'[k] = platformCalls[k]
     /\ posts' # posts =>
          \E r \in Runners :
            /\ Len(posts') = Len(posts) + 1
            /\ SubSeq(posts', 1, Len(posts)) = posts
            /\ posts'[Len(posts')].tenant = tick[r].user
            /\ jobs[tick[r].job].tenant = tick[r].user
            /\ posts'[Len(posts')].content = jobs[tick[r].job].payload
     /\ creds' = creds
     /\ \A r \in Runners : Dispatches(r) =>
          LET j == tick[r].job
              u == tick[r].user
              pid == jobs[j].provider_id
          IN /\ jobs[j].tenant = u
             /\ platformCalls'[j] # platformCalls[j] =>
                  /\ pid \in DOMAIN creds[u]
                  /\ creds[u][pid].is_active
             /\ (jobs[j].job_type = "publish_post"
                   /\ pid \notin DOMAIN creds[u]) =>
                  /\ tick'[r].outcome = <<"Provider name not found">>
                  /\ dispatched'[j] = dispatched[j]
             /\ (jobs[j].job_type = "publish_post"
                   /\ pid \in DOMAIN creds[u]) =>
                  dispatched'[j] = dispatched[j] + 1]_vars

\* both tenants hold a due job under the same provider reference; one tick
\* has published the job of the tenant whose store holds an active
\* credential of a supported type under it, and has failed the job of the
\* other tenant without a platform request
C29_Witness ==
  \E r \in Runners :
    /\ Done(r)
    /\ \E j, k \in tick[r].attempted :
         /\ jobs[j].tenant # jobs[k].tenant
         /\ jobs[j].provider_id = jobs[k].provider_id
         /\ jobs[j].status = JobStatusCompleted
         /\ platformCalls[j] = 1
         /\ jobs[k].status = JobStatusFailed
         /\ platformCalls[k] = 0
         /\ \E i \in DOMAIN posts : posts[i] = PostOf(j)
         /\ \A i \in DOMAIN posts : posts[i].tenant = jobs[j].tenant

\* C30: the first Stop call on a scheduler, started or not, returns with
\* the stop channel closed and the ticker stopped; every later Stop call on
\* it panics on the closed channel.
C30_StopOneShot ==
  [][stops'.n # stops.n =>
       IF stops.n = 0
       THEN /\ ~stops'.panicked
            /\ ~stopClosed /\ stopClosed'
            /\ ~tickerOn'
            /\ proc' = "up"
       ELSE /\ stops'.panicked
            /\ stopClosed
            /\ proc' = "down"]_vars

\* a scheduler that was stopped before it was started has been started,
\* and the Stop call after Start has panicked
C30_Witness ==
  /\ stops.n = 2
  /\ stops.panicked
  /\ stops.started
  /\ mainPc = "started"
====
